---------------------------- MODULE Spec2Model ----------------------------
(***************************************************************************)
(* A model of the breach arbiter of breacharbiter.go: the coordinator      *)
(* (contractObserver), the per-channel breachObserver, the retribution     *)
(* executor (exactRetribution), Start/Stop, and the retributionStore,      *)
(* together with the persistent state they share (the retribution bucket   *)
(* and the channel database) and a process crash followed by a restart.    *)
(***************************************************************************)
EXTENDS Integers, Sequences, FiniteSets, TLC

\* ------------------------------------------------------------------ bounds

\* How many times the process may crash and be restarted.
MaxCrashes == 1
\* How many collaborator calls may return an error in one behaviour.
MaxErrors == 2
\* How many times a peer hands a channel to newContracts.
MaxNewContracts == 1
\* How many calls of Start, and of Stop, find the flag set already, per process.
MaxCalls == 1

\* The funding outpoints of the channels of the node.
ChanPoints == {"cpA", "cpB"}

\* ---------------------------------------------------------------- constants

\* The absent value of a map lookup (the `ok == false` of a Go map read, a
\* nil bucket entry).
NoRec == [chanPoint |-> "-", commitHash |-> "-"]

\* The txid of the revoked commitment broadcast on a channel
\* (breachInfo.BreachTransaction.TxHash()).
BreachTxid(cp) == "breach_" \o cp

\* The txid of the commitment of a non-revoked close of a channel.
CloseTxid(cp) == "close_" \o cp

VARIABLES
    \* ---- persistent: survives a crash
    bucket,          \* whether the "retribution" bucket exists
    store,           \* the bucket's contents: chanPoint -> record (NoRec: no key)
    chanDB,          \* channeldb: chanPoint -> [st, closeType, closingTxid, tlb]
    chain,           \* what spent the funding output, and whether it confirmed
    mempool,         \* the justice transactions published, per channel
    justiceConf,     \* the justice transaction that confirmed (0: none), per channel
    nextTx,          \* the wallet's sweep-address counter: names the next justice tx
    \* ---- volatile: the state of the running process
    started, stopped, quit,
    startPc,         \* where Start is
    loaded,          \* Start's breachRetInfos / closeSummaries
    active,          \* Start's activeChannels
    todo,            \* what is left of the loop Start is in
    cur,             \* the channel Start's reconciliation loop is at
    watchList,       \* Start's channelsToWatch
    coordPc,         \* where contractObserver is
    breachObservers, \* chanPoint -> the settle signal (observer id) of its watcher, 0: none
    obs,             \* the breachObserver goroutines, by id
    execs,           \* the exactRetribution goroutines, by id
    fwd,             \* observers whose settledContracts forwarder is blocked on its send
    extSettle,       \* channels an outside subsystem is sending on settledContracts
    pendingNew,      \* channels a peer is sending on newContracts
    watchers,        \* Start's pending-close watchers: chanPoint -> "none"/"wait"/"done"
    linkClosed,      \* the HTLC switch: links closed with reason CloseBreach
    finalizers,      \* the untracked waitForChanToClose goroutines: chanPoint -> pc
    notifierDown,    \* the chain notifier has shut down (its channels are closed)
    \* ---- bookkeeping of the run
    crashes, errs, newCount,
    hist,            \* per channel, the order in which Start reconciled it
    calls,           \* the calls of Start and Stop that found their flag set already
    probe            \* a direct call of the store, the codec or a builder: inputs, result

pvars == <<bucket, store, chanDB, chain, mempool, justiceConf, nextTx>>
svars == <<started, stopped, quit, startPc, loaded, active, todo, cur, watchList>>
tvars == <<coordPc, breachObservers, obs, execs, fwd, extSettle, pendingNew,
           watchers, linkClosed, finalizers, notifierDown>>
bvars == <<crashes, errs, newCount, hist, calls, probe>>
vars == <<pvars, svars, tvars, bvars>>

\* ------------------------------------------------------- retribution store

\* The store holds a record under the key of cp.
HasRec(cp) == bucket /\ store[cp] # NoRec

\* retributionStore.Add as an insert: a record that is in the bucket under
\* the chanPoint is kept.
StoreAdd_KeepsFirst(b, s, rec) ==
    <<TRUE, IF b /\ s[rec.chanPoint] # NoRec
            THEN s ELSE [s EXCEPT ![rec.chanPoint] = rec]>>

\* retributionStore.Add: creates the bucket if absent and puts the record
\* under its chanPoint, overwriting. Yields <<bucket', store'>>.
StoreAdd(b, s, rec) == <<TRUE, [s EXCEPT ![rec.chanPoint] = rec]>>

\* retributionStore.Remove: an error (and no change) when the bucket does
\* not exist, else bolt's Delete, which succeeds whether or not the key is
\* present. Yields <<bucket', store'>>.
StoreRemove(b, s, cp) == IF b THEN <<b, [s EXCEPT ![cp] = NoRec]>> ELSE <<b, s>>

\* retributionStore.ForAll as Start uses it: the map chanPoint -> record of
\* everything in the bucket (nothing when the bucket does not exist).
StoreForAll(b, s) == IF b THEN s ELSE [cp \in ChanPoints |-> NoRec]

\* What retributionStore.Remove returns: an error when the bucket does not
\* exist, else what bolt's Delete returns, which is nil also for a key the
\* bucket does not hold.
StoreRemoveErr(b, s, cp) == ~b

\* The keys of the bucket in the order of bolt's ForEach (the byte order of
\* the serialized outpoints).
KeyOrder == <<"cpA", "cpB">>

\* retBucket.ForEach from the i-th key on, with a callback that returns an
\* error on the record of failAt: the records handed to the callback, and
\* whether the iteration ended on an error.
RECURSIVE ForEach(_, _, _)
ForEach(s, i, failAt) ==
    IF i > Len(KeyOrder)
    THEN [visited |-> <<>>, err |-> FALSE]
    ELSE LET cp == KeyOrder[i]
         IN  IF s[cp] = NoRec
             THEN ForEach(s, i + 1, failAt)
             ELSE IF cp = failAt
                  THEN [visited |-> <<s[cp]>>, err |-> TRUE]
                  ELSE LET rest == ForEach(s, i + 1, failAt)
                       IN  [visited |-> <<s[cp]>> \o rest.visited,
                            err |-> rest.err]

\* retributionStore.ForAll that goes through the bucket and drops the error
\* of the callback.
ForAllVisit_SwallowsError(b, s, failAt) ==
    IF b
    THEN [visited |-> ForEach(s, 1, "-").visited, err |-> FALSE]
    ELSE [visited |-> <<>>, err |-> FALSE]

\* retributionStore.ForAll: nothing and no error when the bucket does not
\* exist, else ForEach over the bucket.
ForAllVisit(b, s, failAt) ==
    IF b THEN ForEach(s, 1, failAt) ELSE [visited |-> <<>>, err |-> FALSE]

\* The record a breach observer assembles for its channel.
RetInfo(cp) == [chanPoint |-> cp, commitHash |-> BreachTxid(cp)]

\* --------------------------------------------------------- channel database

\* The channeldb entry of a funding outpoint the node has no channel on.
NoChan == [st |-> "none", closeType |-> "-", closingTxid |-> "-", tlb |-> 0]

\* A channel record of channeldb.
OpenChan == [st |-> "open", closeType |-> "-", closingTxid |-> "-", tlb |-> 0]

\* A ChannelCloseSummary with IsPending = true.
Summary(type, txid, tlb) ==
    [st |-> "pending", closeType |-> type, closingTxid |-> txid, tlb |-> tlb]

\* The close summary Start rebuilds from a stored record, and the one the
\* breach observer builds from the breach report.
BreachSummary(rec) == Summary("Breach", rec.commitHash, 0)

\* LightningChannel.DeleteState(summary): moves the open channel to the
\* closed bucket under the summary; an absent open record is left alone.
DeleteState(db, cp, summary) ==
    IF db[cp].st = "open" THEN [db EXCEPT ![cp] = summary] ELSE db

\* DB.MarkChanFullyClosed: clears IsPending of the channel's close summary;
\* an error (and no change) when the channel has no close summary.
MarkChanFullyClosed(db, cp) ==
    IF db[cp].st = "pending" THEN [db EXCEPT ![cp].st = "closed"] ELSE db


\* ------------------------------------------------------------------- chain

Unspent == [kind |-> "none", conf |-> FALSE]

\* The txid of the transaction that spent the funding output of cp.
SpendTxid(cp) == IF chain[cp].kind = "breach" THEN BreachTxid(cp) ELSE CloseTxid(cp)

\* A confirmation of txid has been dispatched for channel cp
\* (ConfirmationEvent.Confirmed yields a value) by a live notifier.
Confirmed(cp, txid) ==
    /\ ~notifierDown
    /\ chain[cp].conf
    /\ chain[cp].kind # "none"
    /\ SpendTxid(cp) = txid

\* ------------------------------------------------------------------- state

NoChans == [cp \in ChanPoints |-> NoRec]

\* A collaborator call may fail while the error budget lasts.
MayFail == errs < MaxErrors

\* The state of a process that has just been constructed (newBreachArbiter).
FreshProcess ==
    /\ started = 0 /\ stopped = 0 /\ quit = FALSE
    /\ startPc = "idle"
    /\ loaded = NoChans
    /\ active = {}
    /\ todo = {}
    /\ cur = "-"
    /\ watchList = {}
    /\ coordPc = "none"
    /\ breachObservers = [cp \in ChanPoints |-> 0]
    /\ obs = <<>>
    /\ execs = <<>>
    /\ fwd = {}
    /\ extSettle = {}
    /\ pendingNew = {}
    /\ watchers = [cp \in ChanPoints |-> [pc |-> "none", txid |-> "-"]]
    /\ linkClosed = [cp \in ChanPoints |-> FALSE]
    /\ notifierDown = FALSE
    /\ finalizers = [cp \in ChanPoints |-> "none"]
    /\ hist = [cp \in ChanPoints |-> [order |-> "-"]]
    /\ calls = [start |-> 0, stop |-> 0]

\* No direct call is under way.
NoProbe == [op |-> "none"]

\* The first boot of a node with one open channel: an empty store.
Boot ==
    /\ bucket = FALSE
    /\ store = NoChans
    /\ chanDB = [cp \in ChanPoints |-> IF cp = "cpA" THEN OpenChan ELSE NoChan]
    /\ chain = [cp \in ChanPoints |-> Unspent]
    /\ mempool = [cp \in ChanPoints |-> {}]
    /\ justiceConf = [cp \in ChanPoints |-> 0]
    /\ nextTx = 0
    /\ crashes = 0 /\ errs = 0 /\ newCount = 0
    /\ FreshProcess

Init == Boot /\ probe = NoProbe

\* The process dies (a crash, or an unrecovered panic): every goroutine and
\* all in-memory state is gone, the disk and the chain stay.
Reboot ==
    /\ started' = 0 /\ stopped' = 0 /\ quit' = FALSE
    /\ startPc' = "idle"
    /\ loaded' = NoChans
    /\ active' = {}
    /\ todo' = {}
    /\ cur' = "-"
    /\ watchList' = {}
    /\ coordPc' = "none"
    /\ breachObservers' = [cp \in ChanPoints |-> 0]
    /\ obs' = <<>>
    /\ execs' = <<>>
    /\ fwd' = {}
    /\ extSettle' = {}
    /\ pendingNew' = {}
    /\ watchers' = [cp \in ChanPoints |-> [pc |-> "none", txid |-> "-"]]
    /\ linkClosed' = [cp \in ChanPoints |-> FALSE]
    /\ notifierDown' = FALSE
    /\ finalizers' = [cp \in ChanPoints |-> "none"]
    /\ hist' = [cp \in ChanPoints |-> [order |-> "-"]]
    /\ calls' = [start |-> 0, stop |-> 0]
    /\ UNCHANGED probe

Crash ==
    /\ started = 1
    /\ crashes < MaxCrashes
    /\ crashes' = crashes + 1
    /\ Reboot
    /\ UNCHANGED <<pvars, errs, newCount>>

\* ------------------------------------------------------------- environment

\* The counterparty (or the chain) spends the funding output: with the
\* cooperative close transaction, with its latest commitment, or with a
\* revoked commitment.
SpendFunding(cp, kind) ==
    /\ chanDB[cp].st # "none"
    /\ chain[cp].kind = "none"
    /\ kind = "coop" => chanDB[cp].closeType = "Coop"
    /\ chain' = [chain EXCEPT ![cp] = [kind |-> kind, conf |-> FALSE]]
    /\ UNCHANGED <<bucket, store, chanDB, mempool, justiceConf, nextTx,
                   svars, tvars, bvars>>

\* The transaction that spent the funding output is mined.
ConfirmSpend(cp) ==
    /\ chain[cp].kind # "none"
    /\ ~chain[cp].conf
    /\ chain' = [chain EXCEPT ![cp].conf = TRUE]
    /\ UNCHANGED <<bucket, store, chanDB, mempool, justiceConf, nextTx,
                   svars, tvars, bvars>>

\* One of the published justice transactions of cp is mined; they spend the
\* same outputs, so at most one ever is.
ConfirmJustice(cp, t) ==
    /\ t \in mempool[cp]
    /\ justiceConf[cp] = 0
    /\ chain[cp].conf
    /\ justiceConf' = [justiceConf EXCEPT ![cp] = t]
    /\ UNCHANGED <<bucket, store, chanDB, chain, mempool, nextTx,
                   svars, tvars, bvars>>

\* The chain notifier shuts down: every Confirmed channel is closed.
NotifierShutdown ==
    /\ startPc = "done"
    /\ ~notifierDown
    /\ notifierDown' = TRUE
    /\ UNCHANGED <<pvars, svars, coordPc, breachObservers, obs, execs, fwd,
                   extSettle, pendingNew, watchers, linkClosed, finalizers, bvars>>

\* A cooperative close: the closing subsystem deletes the channel state with
\* a CooperativeClose summary and sends the channel point on settledContracts.
CoopClose(cp) ==
    /\ startPc = "done"
    /\ chanDB[cp].st = "open"
    /\ chain[cp].kind = "none"
    /\ cp \notin extSettle
    /\ chanDB' = DeleteState(chanDB, cp, Summary("Coop", CloseTxid(cp), 0))
    /\ extSettle' = extSettle \cup {cp}
    /\ UNCHANGED <<bucket, store, chain, mempool, justiceConf, nextTx, svars,
                   coordPc, breachObservers, obs, execs, fwd, pendingNew,
                   watchers, linkClosed, finalizers, notifierDown, bvars>>

\* A peer loads an open channel from the database and sends it on
\* newContracts; the send blocks until the coordinator receives it.
PeerLoad(cp) ==
    /\ startPc = "done"
    /\ newCount < MaxNewContracts
    /\ chanDB[cp].st = "open"
    /\ cp \notin pendingNew
    /\ pendingNew' = pendingNew \cup {cp}
    /\ newCount' = newCount + 1
    /\ UNCHANGED <<pvars, svars, coordPc, breachObservers, obs, execs, fwd,
                   extSettle, watchers, linkClosed, finalizers, notifierDown,
                   crashes, errs, hist, calls, probe>>


\* ------------------------------------------------------------------- Start

\* What Start leaves alone while it runs through its own steps.
StartFrame ==
    UNCHANGED <<bucket, store, chain, mempool, justiceConf, nextTx,
                stopped, quit, breachObservers, obs, fwd, extSettle,
                pendingNew, finalizers, notifierDown, crashes, newCount,
                calls, probe>>

\* The locals of Start that only StartLoad sets.
StartLocals == UNCHANGED active

\* StartCall that spawns the coordinator before the retributions are loaded.
StartCall_SpawnsFirst ==
    /\ started = 0
    /\ started' = 1
    /\ startPc' = "load"
    /\ coordPc' = "init"
    /\ UNCHANGED <<pvars, stopped, quit, loaded, active, todo, cur, watchList,
                   breachObservers, obs, execs, fwd, extSettle, pendingNew,
                   watchers, linkClosed, finalizers, notifierDown, bvars>>

\* Start, first call: the compare-and-swap of `started` succeeds.
StartCall ==
    /\ started = 0
    /\ started' = 1
    /\ startPc' = "load"
    /\ UNCHANGED <<pvars, stopped, quit, loaded, active, todo, cur, watchList,
                   tvars, bvars>>

\* Start without the compare-and-swap of `started`: a later call runs the
\* startup protocol again.
StartAgain_Reruns ==
    /\ started = 1
    /\ startPc \in {"done", "failed"}
    /\ calls.start < MaxCalls
    /\ calls' = [calls EXCEPT !.start = @ + 1]
    /\ startPc' = "load"
    /\ UNCHANGED <<pvars, started, stopped, quit, loaded, active, todo, cur,
                   watchList, tvars, crashes, errs, newCount, hist,
                   probe>>

\* Start, a later call, also while the first call is still running: the
\* compare-and-swap fails and Start returns nil.
StartAgain ==
    /\ started = 1
    /\ calls.start < MaxCalls
    /\ calls' = [calls EXCEPT !.start = @ + 1]
    /\ UNCHANGED <<pvars, svars, tvars, crashes, errs, newCount, hist, probe>>

\* retributionStore.ForAll fills breachRetInfos and closeSummaries, and
\* FetchAllChannels yields the channels with an open-state record.
StartLoad ==
    /\ startPc = "load"
    /\ loaded' = StoreForAll(bucket, store)
    /\ active' = {cp \in ChanPoints : chanDB[cp].st = "open"}
    /\ todo' = active'
    /\ startPc' = "reconcile"
    /\ UNCHANGED <<started, cur, watchList, coordPc, execs, watchers,
                   linkClosed, chanDB, errs, hist>>
    /\ StartFrame

\* One turn of the loop over activeChannels for a channel that has no stored
\* retribution: it joins channelsToWatch.
StartWatch(cp) ==
    /\ startPc = "reconcile"
    /\ cp \in todo
    /\ loaded[cp] = NoRec
    /\ watchList' = watchList \cup {cp}
    /\ todo' = todo \ {cp}
    /\ UNCHANGED <<started, startPc, loaded, cur, coordPc, execs, watchers,
                   linkClosed, chanDB, errs, hist>>
    /\ StartFrame
    /\ StartLocals

\* StartCloseLink without the call of htlcSwitch.CloseLink.
StartCloseLink_NoClose(cp) ==
    /\ startPc = "reconcile"
    /\ cp \in todo
    /\ loaded[cp] # NoRec
    /\ cur' = cp
    /\ startPc' = "delete"
    /\ UNCHANGED <<started, loaded, todo, watchList, coordPc, execs, watchers,
                   chanDB, errs, hist, linkClosed>>
    /\ StartFrame
    /\ StartLocals

\* The same turn for a channel found in closeSummaries: htlcSwitch.CloseLink.
StartCloseLink(cp) ==
    /\ startPc = "reconcile"
    /\ cp \in todo
    /\ loaded[cp] # NoRec
    /\ linkClosed' = [linkClosed EXCEPT ![cp] = TRUE]
    /\ cur' = cp
    /\ startPc' = "delete"
    /\ UNCHANGED <<started, loaded, todo, watchList, coordPc, execs, watchers,
                   chanDB, errs, hist>>
    /\ StartFrame
    /\ StartLocals

\* StartDeleteState without its DeleteState call: the loop marks the channel
\* as handled and leaves its open-state record in place.
StartDeleteState_Skip ==
    /\ startPc = "delete"
    /\ hist' = [hist EXCEPT ![cur].order =
                    IF linkClosed[cur] THEN "closeLinkFirst" ELSE "deleteFirst"]
    /\ todo' = todo \ {cur}
    /\ startPc' = "reconcile"
    /\ UNCHANGED <<started, loaded, cur, watchList, coordPc, execs, watchers,
                   linkClosed, errs, chanDB>>
    /\ StartFrame
    /\ StartLocals

\* ... then channel.DeleteState(&closeSummary), and `continue`.
StartDeleteState ==
    /\ startPc = "delete"
    /\ chanDB' = DeleteState(chanDB, cur, BreachSummary(loaded[cur]))
    /\ hist' = [hist EXCEPT ![cur].order =
                    IF linkClosed[cur] THEN "closeLinkFirst" ELSE "deleteFirst"]
    /\ todo' = todo \ {cur}
    /\ startPc' = "reconcile"
    /\ UNCHANGED <<started, loaded, cur, watchList, coordPc, execs, watchers,
                   linkClosed, errs>>
    /\ StartFrame
    /\ StartLocals

\* StartBestBlock reached while the loop over activeChannels still has
\* channels to handle.
StartBestBlock_Early ==
    /\ startPc = "reconcile"
    /\ todo' = {cp \in ChanPoints : loaded[cp] # NoRec}
    /\ startPc' = "spawn"
    /\ UNCHANGED <<started, loaded, cur, watchList, coordPc, execs, watchers,
                   linkClosed, chanDB, errs, hist>>
    /\ StartFrame
    /\ StartLocals

\* GetBestBlock, after the loop over activeChannels has ended.
StartBestBlock ==
    /\ startPc = "reconcile"
    /\ todo = {}
    /\ todo' = {cp \in ChanPoints : loaded[cp] # NoRec}
    /\ startPc' = "spawn"
    /\ UNCHANGED <<started, loaded, cur, watchList, coordPc, execs, watchers,
                   linkClosed, chanDB, errs, hist>>
    /\ StartFrame
    /\ StartLocals

\* A retribution executor as it is spawned: by Start from a decoded record
\* (doneChan is nil), or by the coordinator from an observer's retInfo.
NewExec(rec, fromStore) ==
    [cp |-> rec.chanPoint, pc |-> "waitBreach", confTxid |-> rec.commitHash,
     fromStore |-> fromStore, txid |-> 0, exit |-> "-"]

\* StartSpawnExec that spawns an executor only for the records whose channel
\* was still active, and skips the others.
StartSpawnExec_OnlyActive(cp) ==
    /\ startPc = "spawn"
    /\ cp \in todo
    /\ execs' = IF cp \in active
                THEN Append(execs, NewExec(loaded[cp], TRUE)) ELSE execs
    /\ todo' = todo \ {cp}
    /\ UNCHANGED <<started, startPc, loaded, cur, watchList, coordPc, watchers,
                   linkClosed, chanDB, errs, hist>>
    /\ StartFrame
    /\ StartLocals

\* One turn of the loop over closeSummaries: RegisterConfirmationsNtfn on
\* the record's commitHash, and go exactRetribution.
StartSpawnExec(cp) ==
    /\ startPc = "spawn"
    /\ cp \in todo
    /\ execs' = Append(execs, NewExec(loaded[cp], TRUE))
    /\ todo' = todo \ {cp}
    /\ UNCHANGED <<started, startPc, loaded, cur, watchList, coordPc, watchers,
                   linkClosed, chanDB, errs, hist>>
    /\ StartFrame
    /\ StartLocals

\* go contractObserver(channelsToWatch).
StartSpawnCoord ==
    /\ startPc = "spawn"
    /\ todo = {}
    /\ coordPc' = "init"
    /\ startPc' = "pending"
    /\ UNCHANGED <<started, loaded, todo, cur, watchList, execs, watchers,
                   linkClosed, chanDB, errs, hist>>
    /\ StartFrame
    /\ StartLocals

\* The pending-close channels Start watches: every pending close except a
\* force close with a time-locked balance.
PendingToWatch ==
    {cp \in ChanPoints :
        /\ chanDB[cp].st = "pending"
        /\ ~(chanDB[cp].closeType = "Force" /\ chanDB[cp].tlb # 0)}

\* FetchClosedChannels(true) and the loop that registers a confirmation of
\* each closing txid and spawns its watcher; Start then returns nil.
StartPending ==
    /\ startPc = "pending"
    /\ watchers' = [cp \in ChanPoints |->
                      IF cp \in PendingToWatch
                      THEN [pc |-> "wait", txid |-> chanDB[cp].closingTxid]
                      ELSE watchers[cp]]
    /\ startPc' = "done"
    /\ UNCHANGED <<started, loaded, todo, cur, watchList, coordPc, execs,
                   linkClosed, chanDB, errs, hist>>
    /\ StartFrame
    /\ StartLocals

\* A collaborator call of Start returns an error and Start returns it:
\* ForAll, FetchAllChannels, NewLightningChannel, DeleteState, GetBestBlock,
\* RegisterConfirmationsNtfn or FetchClosedChannels.
StartFail ==
    /\ startPc \in {"load", "reconcile", "delete", "spawn", "pending"}
    /\ MayFail
    /\ errs' = errs + 1
    /\ startPc' = "failed"
    /\ UNCHANGED <<started, loaded, todo, cur, watchList, coordPc, execs,
                   watchers, linkClosed, chanDB, hist>>
    /\ StartFrame
    /\ StartLocals

\* Stop, first call: closes quit (wg.Wait is the wait for Tracked = {}).
StopCall ==
    /\ startPc \in {"done", "failed"}
    /\ stopped = 0
    /\ stopped' = 1
    /\ quit' = TRUE
    /\ UNCHANGED <<pvars, started, startPc, loaded, active, todo, cur,
                   watchList, tvars, bvars>>

\* Stop, a later call: the compare-and-swap of `stopped` fails and Stop
\* returns nil, with no close(b.quit) and no b.wg.Wait().
StopAgain ==
    /\ stopped = 1
    /\ calls.stop < MaxCalls
    /\ calls' = [calls EXCEPT !.stop = @ + 1]
    /\ UNCHANGED <<pvars, svars, tvars, crashes, errs, newCount, hist, probe>>


\* ------------------------------------------------------------ coordinator

\* A breach observer as it is spawned, in its select.
NewObs(cp) ==
    [cp |-> cp, pc |-> "select", sig |-> "open", outcome |-> "-",
     added |-> "-", deleted |-> "-"]

\* The observers contractObserver spawns for the channels it is given, one
\* per channel, in some order of the slice.
RECURSIVE SpawnAll(_, _)
SpawnAll(os, cps) ==
    IF cps = {} THEN os
    ELSE LET cp == CHOOSE c \in cps : TRUE
         IN  SpawnAll(Append(os, NewObs(cp)), cps \ {cp})

\* The id (settle signal) of the observer SpawnAll gives channel cp.
ObsIdOf(os, cp) == CHOOSE i \in 1..Len(os) : os[i].cp = cp

CoordFrame ==
    UNCHANGED <<pvars, svars, watchers, linkClosed, finalizers, notifierDown,
                crashes, newCount, hist, calls, probe>>

\* contractObserver, before its loop: a breachObserver and a map entry for
\* every channel of activeChannels.
CoordInit ==
    /\ coordPc = "init"
    /\ LET os == SpawnAll(obs, watchList)
       IN  /\ obs' = os
           /\ breachObservers' = [cp \in ChanPoints |->
                                    IF cp \in watchList THEN ObsIdOf(os, cp)
                                    ELSE breachObservers[cp]]
    /\ coordPc' = "loop"
    /\ UNCHANGED <<execs, fwd, extSettle, pendingNew, errs>>
    /\ CoordFrame

\* CoordBreached that takes the retribution off breachedContracts and spawns
\* no executor for it.
CoordBreached_NoSpawn(o) ==
    /\ coordPc = "loop"
    /\ o \in 1..Len(obs)
    /\ obs[o].pc = "send"
    /\ obs' = [obs EXCEPT ![o].pc = "done"]
    /\ breachObservers' = [breachObservers EXCEPT ![obs[o].cp] = 0]
    /\ UNCHANGED <<coordPc, fwd, extSettle, pendingNew, errs, execs>>
    /\ CoordFrame

\* case breachInfo := <-b.breachedContracts, from observer o: register for
\* the confirmation of the breach transaction, spawn the executor, delete
\* the map entry of the channel point.
CoordBreached(o) ==
    /\ coordPc = "loop"
    /\ o \in 1..Len(obs)
    /\ obs[o].pc = "send"
    /\ obs' = [obs EXCEPT ![o].pc = "done"]
    /\ execs' = Append(execs, NewExec(RetInfo(obs[o].cp), FALSE))
    /\ breachObservers' = [breachObservers EXCEPT ![obs[o].cp] = 0]
    /\ UNCHANGED <<coordPc, fwd, extSettle, pendingNew, errs>>
    /\ CoordFrame

\* The same receive when RegisterConfirmationsNtfn fails: `continue`.
CoordBreachedRegErr(o) ==
    /\ coordPc = "loop"
    /\ o \in 1..Len(obs)
    /\ obs[o].pc = "send"
    /\ MayFail
    /\ errs' = errs + 1
    /\ obs' = [obs EXCEPT ![o].pc = "done"]
    /\ UNCHANGED <<coordPc, breachObservers, execs, fwd, extSettle, pendingNew>>
    /\ CoordFrame

\* close(ch) of a settle signal: a panic, which ends the process, when the
\* channel is closed already.
ClosePanics(o) == obs[o].sig = "closed"

\* CoordNew that overwrites the map entry without closing the settle signal
\* of the watcher it replaces.
CoordNew_NoClose(cp) ==
    /\ coordPc = "loop"
    /\ cp \in pendingNew
    /\ pendingNew' = pendingNew \ {cp}
    /\ obs' = Append(obs, NewObs(cp))
    /\ breachObservers' = [breachObservers EXCEPT ![cp] = Len(obs) + 1]
    /\ UNCHANGED <<coordPc, execs, fwd, extSettle, errs>>
    /\ CoordFrame

\* case contract := <-b.newContracts: the watcher of the channel point, if
\* any, is signalled to exit, and a fresh observer takes the map entry.
CoordNew(cp) ==
    /\ coordPc = "loop"
    /\ cp \in pendingNew
    /\ pendingNew' = pendingNew \ {cp}
    /\ LET old == breachObservers[cp]
           closed == IF old # 0 THEN [obs EXCEPT ![old].sig = "closed"] ELSE obs
       IN  /\ old # 0 => ~ClosePanics(old)
           /\ obs' = Append(closed, NewObs(cp))
           /\ breachObservers' = [breachObservers EXCEPT ![cp] = Len(obs) + 1]
    /\ UNCHANGED <<coordPc, execs, fwd, extSettle, errs>>
    /\ CoordFrame

\* SettleEffect that closes the signal and leaves the entry in the map.
SettleEffect_KeepsEntry(cp) ==
    LET kill == breachObservers[cp]
    IN  IF kill = 0
        THEN UNCHANGED <<obs, breachObservers>>
        ELSE /\ ~ClosePanics(kill)
             /\ obs' = [obs EXCEPT ![kill].sig = "closed"]
             /\ UNCHANGED breachObservers

\* The effect of `case chanPoint := <-b.settledContracts` on the map and the
\* observers: nothing when the channel point has no entry, else the entry's
\* signal is closed and the entry deleted.
SettleEffect(cp) ==
    LET kill == breachObservers[cp]
    IN  IF kill = 0
        THEN UNCHANGED <<obs, breachObservers>>
        ELSE /\ ~ClosePanics(kill)
             /\ obs' = [obs EXCEPT ![kill].sig = "closed"]
             /\ breachObservers' = [breachObservers EXCEPT ![cp] = 0]

\* settledContracts, sent by the forwarder of observer o.
CoordSettledFwd(o) ==
    /\ coordPc = "loop"
    /\ o \in fwd
    /\ fwd' = fwd \ {o}
    /\ SettleEffect(obs[o].cp)
    /\ UNCHANGED <<coordPc, execs, extSettle, pendingNew, errs>>
    /\ CoordFrame

\* settledContracts, sent by an outside subsystem.
CoordSettledExt(cp) ==
    /\ coordPc = "loop"
    /\ cp \in extSettle
    /\ extSettle' = extSettle \ {cp}
    /\ SettleEffect(cp)
    /\ UNCHANGED <<coordPc, execs, fwd, pendingNew, errs>>
    /\ CoordFrame

\* case <-b.quit: break out.
CoordQuit ==
    /\ coordPc = "loop"
    /\ quit
    /\ coordPc' = "exited"
    /\ UNCHANGED <<breachObservers, obs, execs, fwd, extSettle, pendingNew, errs>>
    /\ CoordFrame

\* The forwarder goroutine of observer o: case <-b.quit.
FwdQuit(o) ==
    /\ o \in fwd
    /\ quit
    /\ fwd' = fwd \ {o}
    /\ UNCHANGED <<coordPc, breachObservers, obs, execs, extSettle, pendingNew, errs>>
    /\ CoordFrame


\* ---------------------------------------------------------- breach observer

ObsFrame ==
    UNCHANGED <<chain, mempool, justiceConf, nextTx, svars, coordPc,
                breachObservers, execs, extSettle, pendingNew, watchers,
                notifierDown, crashes, newCount, hist, calls,
                probe>>

InSelect(o) == o \in 1..Len(obs) /\ obs[o].pc = "select"

\* ObsSettle without its return: after contract.Stop() the observer falls
\* into the breach branch.
ObsSettle_FallsThrough(o) ==
    /\ InSelect(o)
    /\ obs[o].sig = "closed"
    /\ obs' = [obs EXCEPT ![o].pc = "add", ![o].outcome = "settle"]
    /\ UNCHANGED <<bucket, store, chanDB, fwd, linkClosed, finalizers, errs>>
    /\ ObsFrame

\* case <-settleSignal: contract.Stop() and return.
ObsSettle(o) ==
    /\ InSelect(o)
    /\ obs[o].sig = "closed"
    /\ obs' = [obs EXCEPT ![o].pc = "done", ![o].outcome = "settle"]
    /\ UNCHANGED <<bucket, store, chanDB, fwd, linkClosed, finalizers, errs>>
    /\ ObsFrame

\* case closeInfo := <-contract.UnilateralClose: the channel state machine
\* has closed the channel with a ForceClose summary; the observer spawns the
\* settledContracts forwarder and the untracked waitForChanToClose.
ObsUnilateral(o) ==
    /\ InSelect(o)
    /\ chain[obs[o].cp].kind = "uni"
    /\ chanDB' = DeleteState(chanDB, obs[o].cp,
                             Summary("Force", CloseTxid(obs[o].cp), 0))
    /\ fwd' = fwd \cup {o}
    /\ finalizers' = [finalizers EXCEPT ![obs[o].cp] = "wait"]
    /\ obs' = [obs EXCEPT ![o].pc = "done", ![o].outcome = "uni"]
    /\ UNCHANGED <<bucket, store, linkClosed, errs>>
    /\ ObsFrame

\* The breach branch going from CloseLink straight to the send on
\* breachedContracts.
ObsBreach_SendsFirst(o) ==
    /\ InSelect(o)
    /\ chain[obs[o].cp].kind = "breach"
    /\ linkClosed' = [linkClosed EXCEPT ![obs[o].cp] = TRUE]
    /\ obs' = [obs EXCEPT ![o].pc = "send", ![o].outcome = "breach"]
    /\ UNCHANGED <<bucket, store, chanDB, fwd, finalizers, errs>>
    /\ ObsFrame

\* case breachInfo := <-contract.ContractBreach: htlcSwitch.CloseLink and
\* the assembly of retInfo.
ObsBreach(o) ==
    /\ InSelect(o)
    /\ chain[obs[o].cp].kind = "breach"
    /\ linkClosed' = [linkClosed EXCEPT ![obs[o].cp] = TRUE]
    /\ obs' = [obs EXCEPT ![o].pc = "add", ![o].outcome = "breach"]
    /\ UNCHANGED <<bucket, store, chanDB, fwd, finalizers, errs>>
    /\ ObsFrame

\* case <-b.quit: return.
ObsQuit(o) ==
    /\ InSelect(o)
    /\ quit
    /\ obs' = [obs EXCEPT ![o].pc = "done", ![o].outcome = "quit"]
    /\ UNCHANGED <<bucket, store, chanDB, fwd, linkClosed, finalizers, errs>>
    /\ ObsFrame

\* b.retributionStore.Add(retInfo) succeeds.
ObsAdd(o) ==
    /\ o \in 1..Len(obs)
    /\ obs[o].pc = "add"
    /\ bucket' = StoreAdd(bucket, store, RetInfo(obs[o].cp))[1]
    /\ store' = StoreAdd(bucket, store, RetInfo(obs[o].cp))[2]
    /\ obs' = [obs EXCEPT ![o].pc = "delete", ![o].added = "ok"]
    /\ UNCHANGED <<chanDB, fwd, linkClosed, finalizers, errs>>
    /\ ObsFrame

\* b.retributionStore.Add(retInfo) fails: logged, and the observer goes on.
ObsAddErr(o) ==
    /\ o \in 1..Len(obs)
    /\ obs[o].pc = "add"
    /\ MayFail
    /\ errs' = errs + 1
    /\ obs' = [obs EXCEPT ![o].pc = "delete", ![o].added = "err"]
    /\ UNCHANGED <<bucket, store, chanDB, fwd, linkClosed, finalizers>>
    /\ ObsFrame

\* contract.DeleteState(closeInfo) with the BreachClose pending summary.
ObsDeleteState(o) ==
    /\ o \in 1..Len(obs)
    /\ obs[o].pc = "delete"
    /\ chanDB' = DeleteState(chanDB, obs[o].cp, BreachSummary(RetInfo(obs[o].cp)))
    /\ obs' = [obs EXCEPT ![o].pc = "send", ![o].deleted = "ok"]
    /\ UNCHANGED <<bucket, store, fwd, linkClosed, finalizers, errs>>
    /\ ObsFrame

\* contract.DeleteState(closeInfo) fails: logged, and the observer goes on.
ObsDeleteStateErr(o) ==
    /\ o \in 1..Len(obs)
    /\ obs[o].pc = "delete"
    /\ MayFail
    /\ errs' = errs + 1
    /\ obs' = [obs EXCEPT ![o].pc = "send", ![o].deleted = "err"]
    /\ UNCHANGED <<bucket, store, chanDB, fwd, linkClosed, finalizers>>
    /\ ObsFrame

\* The final select of the breach branch, case <-b.quit.
ObsSendQuit(o) ==
    /\ o \in 1..Len(obs)
    /\ obs[o].pc = "send"
    /\ quit
    /\ obs' = [obs EXCEPT ![o].pc = "done"]
    /\ UNCHANGED <<bucket, store, chanDB, fwd, linkClosed, finalizers, errs>>
    /\ ObsFrame

\* --------------------------------------------------- retribution executor

ExecFrame == UNCHANGED <<chain, justiceConf, crashes, newCount>>

\* The rest of the process, which a step of an executor leaves alone.
ExecRest ==
    UNCHANGED <<svars, coordPc, breachObservers, obs, fwd, extSettle,
                pendingNew, watchers, linkClosed, finalizers, notifierDown,
                hist, calls, probe>>

ExecAt(e, pcs) == e \in 1..Len(execs) /\ execs[e].pc \in pcs

\* ExecConfClosed without the return of the second select: a closed
\* Confirmed channel is taken for the confirmation of the justice
\* transaction.
ExecConfClosed_FallsThrough(e) ==
    /\ ExecAt(e, {"waitBreach", "waitJustice"})
    /\ notifierDown
    /\ chanDB' = IF execs[e].pc = "waitJustice"
                 THEN MarkChanFullyClosed(chanDB, execs[e].cp) ELSE chanDB
    /\ execs' = IF execs[e].pc = "waitJustice"
                THEN [execs EXCEPT ![e].pc = "remove"]
                ELSE [execs EXCEPT ![e].pc = "done", ![e].exit = "closed1"]
    /\ UNCHANGED <<bucket, store, mempool, nextTx, errs>>
    /\ ExecFrame
    /\ ExecRest

\* Either select: the Confirmed channel is closed (ok = false): return.
ExecConfClosed(e) ==
    /\ ExecAt(e, {"waitBreach", "waitJustice"})
    /\ notifierDown
    /\ execs' = [execs EXCEPT ![e].pc = "done",
                              ![e].exit = IF execs[e].pc = "waitBreach"
                                          THEN "closed1" ELSE "closed2"]
    /\ UNCHANGED <<bucket, store, chanDB, mempool, nextTx, errs>>
    /\ ExecFrame
    /\ ExecRest

\* Either select: case <-b.quit: return.
ExecQuit(e) ==
    /\ ExecAt(e, {"waitBreach", "waitJustice"})
    /\ quit
    /\ execs' = [execs EXCEPT ![e].pc = "done", ![e].exit = "quit"]
    /\ UNCHANGED <<bucket, store, chanDB, mempool, nextTx, errs>>
    /\ ExecFrame
    /\ ExecRest

\* ExecPublish that does not wait for the confirmation of the justice
\* transaction: it goes on to retributionStore.Remove at once.
ExecPublish_NoWait(e) ==
    /\ ExecAt(e, {"waitBreach"})
    /\ Confirmed(execs[e].cp, execs[e].confTxid)
    /\ justiceConf[execs[e].cp] = 0
    /\ nextTx' = nextTx + 1
    /\ mempool' = [mempool EXCEPT ![execs[e].cp] = @ \cup {nextTx + 1}]
    /\ execs' = [execs EXCEPT ![e].pc = "remove", ![e].txid = nextTx + 1]
    /\ UNCHANGED <<bucket, store, chanDB, errs>>
    /\ ExecFrame
    /\ ExecRest

\* The first select yields the confirmation of the breach transaction
\* (ok = true); createJusticeTx, GetBestBlock, PublishTransaction and the
\* registration for the confirmation of the justice txid all succeed.
ExecPublish(e) ==
    /\ ExecAt(e, {"waitBreach"})
    /\ Confirmed(execs[e].cp, execs[e].confTxid)
    /\ justiceConf[execs[e].cp] = 0
    /\ nextTx' = nextTx + 1
    /\ mempool' = [mempool EXCEPT ![execs[e].cp] = @ \cup {nextTx + 1}]
    /\ execs' = [execs EXCEPT ![e].pc = "waitJustice", ![e].txid = nextTx + 1]
    /\ UNCHANGED <<bucket, store, chanDB, errs>>
    /\ ExecFrame
    /\ ExecRest

\* After the confirmation, PublishTransaction fails because a confirmed
\* justice transaction has spent the outputs already: return.
ExecPublishSpent(e) ==
    /\ ExecAt(e, {"waitBreach"})
    /\ Confirmed(execs[e].cp, execs[e].confTxid)
    /\ justiceConf[execs[e].cp] # 0
    /\ execs' = [execs EXCEPT ![e].pc = "done", ![e].exit = "publishErr"]
    /\ UNCHANGED <<bucket, store, chanDB, mempool, nextTx, errs>>
    /\ ExecFrame
    /\ ExecRest

\* After the confirmation, createJusticeTx, GetBestBlock or
\* PublishTransaction returns an error: return.
ExecBuildErr(e) ==
    /\ ExecAt(e, {"waitBreach"})
    /\ Confirmed(execs[e].cp, execs[e].confTxid)
    /\ MayFail
    /\ errs' = errs + 1
    /\ execs' = [execs EXCEPT ![e].pc = "done", ![e].exit = "buildErr"]
    /\ UNCHANGED <<bucket, store, chanDB, mempool, nextTx>>
    /\ ExecFrame
    /\ ExecRest

\* The transaction is published and RegisterConfirmationsNtfn fails: return.
ExecRegisterErr(e) ==
    /\ ExecAt(e, {"waitBreach"})
    /\ Confirmed(execs[e].cp, execs[e].confTxid)
    /\ justiceConf[execs[e].cp] = 0
    /\ MayFail
    /\ errs' = errs + 1
    /\ nextTx' = nextTx + 1
    /\ mempool' = [mempool EXCEPT ![execs[e].cp] = @ \cup {nextTx + 1}]
    /\ execs' = [execs EXCEPT ![e].pc = "done", ![e].txid = nextTx + 1,
                              ![e].exit = "registerErr"]
    /\ UNCHANGED <<bucket, store, chanDB>>
    /\ ExecFrame
    /\ ExecRest

\* The second select: the justice transaction this executor published is
\* confirmed (ok = true); MarkChanFullyClosed, its error only logged.
ExecJusticeConf(e) ==
    /\ ExecAt(e, {"waitJustice"})
    /\ ~notifierDown
    /\ justiceConf[execs[e].cp] = execs[e].txid
    /\ chanDB' = MarkChanFullyClosed(chanDB, execs[e].cp)
    /\ execs' = [execs EXCEPT ![e].pc = "remove"]
    /\ UNCHANGED <<bucket, store, mempool, nextTx, errs>>
    /\ ExecFrame
    /\ ExecRest

\* The same when MarkChanFullyClosed fails in the database.
ExecJusticeConfMarkErr(e) ==
    /\ ExecAt(e, {"waitJustice"})
    /\ ~notifierDown
    /\ justiceConf[execs[e].cp] = execs[e].txid
    /\ MayFail
    /\ errs' = errs + 1
    /\ execs' = [execs EXCEPT ![e].pc = "remove"]
    /\ UNCHANGED <<bucket, store, chanDB, mempool, nextTx>>
    /\ ExecFrame
    /\ ExecRest

\* close(breachInfo.doneChan) and return. The doneChan of a retInfo decoded
\* from the store is nil: close panics and the process dies.
CloseDoneChan(e) ==
    IF execs[e].fromStore
    THEN Reboot
    ELSE /\ execs' = [execs EXCEPT ![e].pc = "done", ![e].exit = "served"]
         /\ UNCHANGED <<svars, coordPc, breachObservers, obs, fwd, extSettle,
                        pendingNew, watchers, linkClosed, finalizers,
                        notifierDown, hist, calls, probe>>

\* b.retributionStore.Remove(&breachInfo.chanPoint), its error only logged,
\* then close(breachInfo.doneChan).
ExecRemove(e) ==
    /\ ExecAt(e, {"remove"})
    /\ bucket' = StoreRemove(bucket, store, execs[e].cp)[1]
    /\ store' = StoreRemove(bucket, store, execs[e].cp)[2]
    /\ CloseDoneChan(e)
    /\ UNCHANGED <<chanDB, mempool, nextTx, errs>>
    /\ ExecFrame

\* The same when the database transaction of Remove fails.
ExecRemoveErr(e) ==
    /\ ExecAt(e, {"remove"})
    /\ MayFail
    /\ errs' = errs + 1
    /\ CloseDoneChan(e)
    /\ UNCHANGED <<bucket, store, chanDB, mempool, nextTx>>
    /\ ExecFrame

\* ------------------------------------------- watchers of the closing txid

\* A pending-close watcher of Start: the closing txid is confirmed, and the
\* channel is marked fully closed.
WatcherConf(cp) ==
    /\ watchers[cp].pc = "wait"
    /\ Confirmed(cp, watchers[cp].txid)
    /\ chanDB' = MarkChanFullyClosed(chanDB, cp)
    /\ watchers' = [watchers EXCEPT ![cp].pc = "done"]
    /\ UNCHANGED <<bucket, store, chain, mempool, justiceConf, nextTx, svars,
                   coordPc, breachObservers, obs, execs, fwd, extSettle,
                   pendingNew, linkClosed, finalizers, notifierDown, bvars>>

\* The same watcher: its Confirmed channel is closed, or case <-b.quit.
WatcherExit(cp) ==
    /\ watchers[cp].pc = "wait"
    /\ notifierDown \/ quit
    /\ watchers' = [watchers EXCEPT ![cp].pc = "done"]
    /\ UNCHANGED <<pvars, svars, coordPc, breachObservers, obs, execs, fwd,
                   extSettle, pendingNew, linkClosed, finalizers,
                   notifierDown, bvars>>

\* The hard-coded fee of the commitment sweep.
SweepFee == 5000

\* craftCommitSweepTx without the check of the amount swept.
craftCommitSweepTx_AllowsDust(closeInfo) ==
    IF closeInfo.scriptErr \/ closeInfo.signErr THEN [err |-> TRUE]
    ELSE [err |-> FALSE,
          tx |-> [version |-> 1,
                  txIn |-> <<[previousOutPoint |-> closeInfo.selfOutPoint[1],
                              witness |-> <<"sweepSig", "tweakedKey">>]>>,
                  txOut |-> <<[pkScript |-> closeInfo.pkScript,
                               value |-> closeInfo.value - SweepFee]>>]]

\* craftCommitSweepTx(closeInfo): a fresh script of the wallet, the value
\* of the self output less the fee, an error when nothing is left, else a
\* version-1 transaction with the self outpoint as its input and one
\* output, signed by the wallet's signer. closeInfo carries, next to the
\* close summary, what the wallet answers.
craftCommitSweepTx(closeInfo) ==
    IF closeInfo.scriptErr THEN [err |-> TRUE]
    ELSE LET sweepAmt == closeInfo.value - SweepFee
         IN IF sweepAmt <= 0 THEN [err |-> TRUE]
            ELSE IF closeInfo.signErr THEN [err |-> TRUE]
            ELSE [err |-> FALSE,
                  tx |-> [version |-> 1,
                          txIn |-> <<[previousOutPoint |-> closeInfo.selfOutPoint[1],
                                      witness |-> <<"sweepSig", "tweakedKey">>]>>,
                          txOut |-> <<[pkScript |-> closeInfo.pkScript,
                                       value |-> sweepAmt]>>]]

\* The sweep of the callback of waitForChanToClose for the close summary
\* closeInfo of cp: with a self output, craft the sweep and hand it to
\* PublishTransaction, whose error is only logged; a failure to craft it
\* jumps to the close label. `published` lists the transactions handed to
\* PublishTransaction.
SweepOnClose(closeInfo, cp) ==
    IF closeInfo.selfOutPoint = <<>>
    THEN [op |-> "swept", closeInfo |-> closeInfo, cp |-> cp,
          crafted |-> FALSE, err |-> FALSE, tx |-> NoRec, published |-> <<>>]
    ELSE LET res == craftCommitSweepTx(closeInfo)
         IN [op |-> "swept", closeInfo |-> closeInfo, cp |-> cp,
             crafted |-> TRUE, err |-> res.err,
             tx |-> IF res.err THEN NoRec ELSE res.tx,
             published |-> IF res.err THEN <<>> ELSE <<res.tx>>]

\* The untracked waitForChanToClose of a unilateral close: once the spending
\* transaction is confirmed its callback sweeps the self output of the
\* close summary (probe, when it holds one) and marks the channel fully
\* closed.
FinalizerConf(cp) ==
    /\ finalizers[cp] = "wait"
    /\ Confirmed(cp, CloseTxid(cp))
    /\ probe' = IF probe.op = "closeInfo" THEN SweepOnClose(probe, cp) ELSE probe
    /\ chanDB' = MarkChanFullyClosed(chanDB, cp)
    /\ finalizers' = [finalizers EXCEPT ![cp] = "done"]
    /\ UNCHANGED <<bucket, store, chain, mempool, justiceConf, nextTx, svars,
                   coordPc, breachObservers, obs, execs, fwd, extSettle,
                   pendingNew, watchers, linkClosed, notifierDown,
                   crashes, errs, newCount, hist, calls>>

\* ---------------------------------------------------------- specification

\* The ids a process can give its observers, its executors and its justice
\* transactions: one initial observer per channel and one per newContracts;
\* one executor per stored record and one per observer.
MaxObs == Cardinality(ChanPoints) + MaxNewContracts
ObsIds == 1..MaxObs
ExecIds == 1..(Cardinality(ChanPoints) + MaxObs)
TxIds == 1..((MaxCrashes + 1) * (Cardinality(ChanPoints) + MaxObs))

\* Start and Stop on a node that boots with an empty retribution store.
Startup ==
    \/ StartCall \/ StartLoad
    \/ \E cp \in ChanPoints : StartWatch(cp)
    \/ StartBestBlock \/ StartSpawnCoord \/ StartPending

\* What Start does on a node that boots with stored retributions or pending
\* closes, and the watchers it then spawns.
Recovery ==
    \/ \E cp \in ChanPoints : StartCloseLink(cp) \/ StartSpawnExec(cp)
    \/ StartDeleteState
    \/ \E cp \in ChanPoints : WatcherConf(cp)

\* The goroutines of the arbiter, every collaborator call succeeding.
Tasks ==
    \/ CoordInit
    \/ \E o \in ObsIds :
          \/ CoordBreached(o) \/ CoordSettledFwd(o)
          \/ ObsSettle(o) \/ ObsUnilateral(o) \/ ObsBreach(o)
          \/ ObsAdd(o) \/ ObsDeleteState(o)
    \/ \E cp \in ChanPoints : CoordSettledExt(cp) \/ FinalizerConf(cp)
    \/ \E e \in ExecIds :
          ExecPublish(e) \/ ExecJusticeConf(e) \/ ExecRemove(e)

\* An executor finds the outputs of the breach transaction spent by a
\* justice transaction that was confirmed before it came to publish.
Respend == \E e \in ExecIds : ExecPublishSpent(e)

\* The chain and the other subsystems of the node.
Env ==
    \E cp \in ChanPoints :
        \/ CoopClose(cp) \/ ConfirmSpend(cp)
        \/ \E kind \in {"coop", "uni", "breach"} : SpendFunding(cp, kind)
        \/ \E t \in TxIds : ConfirmJustice(cp, t)

\* Stop, the shutdown of the notifier, and what they make the goroutines do.
Shutdown ==
    \/ StopCall \/ NotifierShutdown \/ CoordQuit
    \/ \E o \in ObsIds : FwdQuit(o) \/ ObsQuit(o) \/ ObsSendQuit(o)
    \/ \E e \in ExecIds : ExecQuit(e) \/ ExecConfClosed(e)

\* The watchers of Start leave on shutdown.
RecoveryShutdown == \E cp \in ChanPoints : WatcherExit(cp)

\* A crash of the process, and the collaborator calls that return an error.
Faults ==
    \/ Crash \/ StartFail
    \/ \E o \in ObsIds :
          CoordBreachedRegErr(o) \/ ObsAddErr(o) \/ ObsDeleteStateErr(o)
    \/ \E e \in ExecIds :
          \/ ExecBuildErr(e) \/ ExecRegisterErr(e)
          \/ ExecJusticeConfMarkErr(e) \/ ExecRemoveErr(e)

\* A peer hands a channel that is watched already to newContracts.
Renew == \E cp \in ChanPoints : PeerLoad(cp) \/ CoordNew(cp)

\* The arbiter with crashes, restarts, failing collaborators and shutdown.
Next ==
    \/ Startup \/ Recovery \/ Tasks \/ Respend \/ Env
    \/ Shutdown \/ RecoveryShutdown \/ Faults

Spec == Init /\ [][Next]_vars

\* The arbiter with re-registered channels and shutdown, no crash and no
\* failing collaborator.
NextNew == Startup \/ Tasks \/ Respend \/ Env \/ Shutdown \/ Renew

SpecNew == Init /\ [][NextNew]_vars

\* The arbiter of Spec with repeated and concurrent calls of Start and Stop.
Recalls == StartAgain \/ StopAgain

NextCalls == Next \/ Recalls

SpecCalls == Init /\ [][NextCalls]_vars

\* --------------------------------------------- the store, called directly

\* The commit hashes of the records handed to the store.
Hashes == {"h1", "h2"}

StoreRecs == [chanPoint : ChanPoints, commitHash : Hashes]

\* What a direct call of the store leaves alone.
ProbeFrame ==
    UNCHANGED <<chanDB, chain, mempool, justiceConf, nextTx, svars, tvars,
                crashes, errs, newCount, hist, calls>>

\* A node whose arbiter is not started; `last` is the record each channel
\* point was last added with and not removed since, `prev` the record that
\* Add replaced.
StoreInit ==
    /\ Boot
    /\ probe = [op |-> "init", arg |-> "-", err |-> FALSE, visited |-> <<>>,
                hadBucket |-> FALSE, hadRec |-> FALSE,
                last |-> NoChans, prev |-> NoChans]

\* Add(rec).
DoAdd(rec) ==
    /\ bucket' = StoreAdd(bucket, store, rec)[1]
    /\ store' = StoreAdd(bucket, store, rec)[2]
    /\ probe' = [probe EXCEPT !.op = "Add", !.arg = rec.chanPoint, !.err = FALSE,
                              !.visited = <<>>,
                              !.hadBucket = bucket,
                              !.hadRec = probe.last[rec.chanPoint] # NoRec,
                              !.prev[rec.chanPoint] = probe.last[rec.chanPoint],
                              !.last[rec.chanPoint] = rec]
    /\ ProbeFrame

\* Remove(cp).
DoRemove(cp) ==
    /\ bucket' = StoreRemove(bucket, store, cp)[1]
    /\ store' = StoreRemove(bucket, store, cp)[2]
    /\ probe' = [probe EXCEPT !.op = "Remove", !.arg = cp,
                              !.err = StoreRemoveErr(bucket, store, cp),
                              !.visited = <<>>,
                              !.hadBucket = bucket,
                              !.hadRec = probe.last[cp] # NoRec,
                              !.prev[cp] = NoRec,
                              !.last[cp] = NoRec]
    /\ ProbeFrame

\* ForAll(cb), cb returning an error on the record of failAt ("-": never).
DoForAll(failAt) ==
    /\ probe' = [probe EXCEPT !.op = "ForAll", !.arg = failAt,
                              !.err = ForAllVisit(bucket, store, failAt).err,
                              !.visited = ForAllVisit(bucket, store, failAt).visited,
                              !.hadBucket = bucket,
                              !.hadRec = FALSE]
    /\ UNCHANGED <<bucket, store>>
    /\ ProbeFrame

StoreNext ==
    \/ \E rec \in StoreRecs : DoAdd(rec)
    \/ \E cp \in ChanPoints : DoRemove(cp)
    \/ \E failAt \in ChanPoints \cup {"-"} : DoForAll(failAt)

StoreSpec == StoreInit /\ [][StoreNext]_vars

\* ---------------------------------------------------------------------
\* Serialization of retributions (the value stored under a channel point).
\* A byte string is a sequence over 0..255.

\* Most HTLC outputs of a serialized retribution.
MaxHtlcs == 2

\* len(chainhash.Hash) and len of a compressed public key.
HashSize == 32
PubKeyLen == 33

\* lnwallet.WitnessType values.
CommitmentTimeLock == 0
CommitmentNoDelay == 1
CommitmentRevoke == 2
WitnessTypes == {CommitmentTimeLock, CommitmentNoDelay, CommitmentRevoke}

Drop(bs, n) == SubSeq(bs, n + 1, Len(bs))

\* binary.BigEndian.PutUintN(scratch[:n], uintN(v)): the n low-order bytes
\* of v in two's complement, most significant first.
RECURSIVE PutUint(_, _)
PutUint(v, n) ==
    IF n = 0 THEN <<>> ELSE Append(PutUint(v \div 256, n - 1), v % 256)

\* F applied to the value of v, which is computed once: the way a decoder
\* keeps the result of a read in a local variable.
Then(v, F(_)) == CHOOSE r \in {F(x) : x \in {v}} : TRUE

\* The value of the first n bytes of bs, most significant first.
RECURSIVE UintAt(_, _)
UintAt(bs, n) == IF n = 0 THEN 0 ELSE 256 * UintAt(bs, n - 1) + bs[n]

\* binary.BigEndian.UintN(bs).
Uint(bs) == UintAt(bs, Len(bs))

\* int64(binary.BigEndian.Uint64(bs)), as btcutil.Amount(...) casts it.
Int64(bs) ==
    IF bs[1] >= 128
    THEN 0 - (Uint([i \in 1..Len(bs) |-> 255 - bs[i]]) + 1)
    ELSE Uint(bs)

\* Little-endian value of the bytes i..Len(bs) of bs.
RECURSIVE UintLEFrom(_, _)
UintLEFrom(bs, i) ==
    IF i > Len(bs) THEN 0 ELSE bs[i] + 256 * UintLEFrom(bs, i + 1)

\* Little-endian value of bs (the payload of a wire varint).
UintLE(bs) == UintLEFrom(bs, 1)

\* The result of a failed read.
DecErr == [err |-> TRUE, rest |-> <<>>]

\* wire.WriteVarInt(w, 0, v) for v below 2^16.
WriteVarInt(v) ==
    IF v < 253 THEN <<v>> ELSE <<253, v % 256, v \div 256>>

\* wire.ReadVarInt(r, 0): a discriminant byte, then 2, 4 or 8 bytes for
\* 0xfd, 0xfe, 0xff; a value that a shorter form holds is rejected.
ReadVarInt(bs) ==
    IF Len(bs) < 1 THEN DecErr
    ELSE IF bs[1] < 253
         THEN [err |-> FALSE, val |-> bs[1], rest |-> Drop(bs, 1)]
    ELSE LET w == CASE bs[1] = 253 -> 2 [] bs[1] = 254 -> 4 [] OTHER -> 8
             canonical ==
                 CASE bs[1] = 253 -> UintLE(SubSeq(bs, 2, 3)) >= 253
                   [] bs[1] = 254 -> UintLE(SubSeq(bs, 4, 5)) > 0
                   [] OTHER -> UintLE(SubSeq(bs, 6, 9)) > 0
         IN IF Len(bs) < 1 + w \/ ~canonical THEN DecErr
            ELSE [err |-> FALSE, val |-> UintLE(SubSeq(bs, 2, 1 + w)),
                  rest |-> Drop(bs, 1 + w)]

\* writeOutpoint: the txid as variable-length bytes, then the output index
\* as 4 big-endian bytes.
WriteOutpoint(o) == WriteVarInt(Len(o.hash)) \o o.hash \o PutUint(o.index, 4)

\* readOutpoint.
ReadOutpoint(bs) ==
    Then(ReadVarInt(bs), LAMBDA n :
        IF n.err THEN DecErr
        ELSE IF n.val # HashSize \/ Len(n.rest) < n.val + 4 THEN DecErr
        ELSE [err |-> FALSE,
              val |-> [hash |-> SubSeq(n.rest, 1, n.val),
                       index |-> Uint(SubSeq(n.rest, n.val + 1, n.val + 4))],
              rest |-> Drop(n.rest, n.val + 4)])

\* lnwallet.WriteSignDescriptor: the descriptor is an opaque blob of
\* sign parameters, written with its length in front.
WriteSignDescriptor(sd) == WriteVarInt(Len(sd)) \o sd

\* lnwallet.ReadSignDescriptor.
ReadSignDescriptor(bs) ==
    Then(ReadVarInt(bs), LAMBDA n :
        IF n.err THEN DecErr
        ELSE IF Len(n.rest) < n.val THEN DecErr
        ELSE [err |-> FALSE, val |-> SubSeq(n.rest, 1, n.val),
              rest |-> Drop(n.rest, n.val)])

\* A 32-byte string whose bytes all differ from their neighbours.
HashOf(k) == [i \in 1..HashSize |-> (k * i) % 256]

\* X coordinates of points of the curve (a sample).
CurveXs == {HashOf(5), HashOf(7)}

\* PublicKey.SerializeCompressed: 0x02 or 0x03 by the parity of Y, then X.
SerializeCompressed(k) == <<IF k.odd THEN 3 ELSE 2>> \o k.x

\* btcec.ParsePubKey of PubKeyLen bytes: the format byte must be 0x02 or
\* 0x03 and X must be the coordinate of a point of the curve.
ParsePubKey(bs) ==
    IF bs[1] \notin {2, 3} \/ SubSeq(bs, 2, PubKeyLen) \notin CurveXs
    THEN DecErr
    ELSE [err |-> FALSE,
          val |-> [x |-> SubSeq(bs, 2, PubKeyLen), odd |-> bs[1] = 3]]

\* breachedOutput.Encode.
EncodeOutput(bo) ==
    PutUint(bo.amt, 8) \o WriteOutpoint(bo.outpoint)
        \o WriteSignDescriptor(bo.signDescriptor)
        \o PutUint(bo.witnessType, 2)
        \o <<IF bo.twoStageClaim THEN 1 ELSE 0>>

\* Decode that reads twoStageClaim as false whatever the byte.
DecodeOutput_DropsTwoStage(bs) ==
    IF Len(bs) < 8 THEN DecErr
    ELSE Then(ReadOutpoint(Drop(bs, 8)), LAMBDA op :
         IF op.err THEN DecErr
         ELSE Then(ReadSignDescriptor(op.rest), LAMBDA sd :
              IF sd.err \/ Len(sd.rest) < 3 THEN DecErr
              ELSE [err |-> FALSE,
                    val |-> [amt |-> Int64(SubSeq(bs, 1, 8)),
                             outpoint |-> op.val,
                             signDescriptor |-> sd.val,
                             witnessType |-> Uint(SubSeq(sd.rest, 1, 2)),
                             twoStageClaim |-> FALSE,
                             witnessFunc |-> "nil"],
                    rest |-> Drop(sd.rest, 3)]))

\* breachedOutput.Decode into a fresh breachedOutput: the amount, the
\* outpoint, the sign descriptor, the witness type as the 16 bits read,
\* twoStageClaim true exactly for the byte 1; witnessFunc stays nil.
DecodeOutput(bs) ==
    IF Len(bs) < 8 THEN DecErr
    ELSE Then(ReadOutpoint(Drop(bs, 8)), LAMBDA op :
         IF op.err THEN DecErr
         ELSE Then(ReadSignDescriptor(op.rest), LAMBDA sd :
              IF sd.err \/ Len(sd.rest) < 2 THEN DecErr
              ELSE IF Len(sd.rest) < 3 THEN DecErr
              ELSE [err |-> FALSE,
                    val |-> [amt |-> Int64(SubSeq(bs, 1, 8)),
                             outpoint |-> op.val,
                             signDescriptor |-> sd.val,
                             witnessType |-> Uint(SubSeq(sd.rest, 1, 2)),
                             twoStageClaim |-> sd.rest[3] = 1,
                             witnessFunc |-> "nil"],
                    rest |-> Drop(sd.rest, 3)]))

\* The loop of Encode over htlcOutputs.
RECURSIVE EncodeOutputs(_)
EncodeOutputs(bos) ==
    IF bos = <<>> THEN <<>>
    ELSE EncodeOutput(Head(bos)) \o EncodeOutputs(Tail(bos))

\* The loop of Decode over numHtlcOutputs outputs.
RECURSIVE DecodeOutputs(_, _)
DecodeOutputs(bs, n) ==
    IF n = 0 THEN [err |-> FALSE, val |-> <<>>, rest |-> bs]
    ELSE Then(DecodeOutput(bs), LAMBDA d :
         IF d.err THEN DecErr
         ELSE Then(DecodeOutputs(d.rest, n - 1), LAMBDA ds :
              IF ds.err THEN DecErr
              ELSE [err |-> FALSE, val |-> <<d.val>> \o ds.val,
                    rest |-> ds.rest]))

\* retributionInfo.Encode.
Encode(ret) ==
    ret.commitHash \o WriteOutpoint(ret.chanPoint)
        \o SerializeCompressed(ret.remoteIdentity)
        \o PutUint(ret.capacity, 8) \o PutUint(ret.settledBalance, 8)
        \o EncodeOutput(ret.selfOutput) \o EncodeOutput(ret.revokedOutput)
        \o WriteVarInt(Len(ret.htlcOutputs))
        \o EncodeOutputs(ret.htlcOutputs)

\* retributionInfo.Decode into a fresh retributionInfo; doneChan stays nil.
Decode(bs) ==
    IF Len(bs) < HashSize THEN DecErr
    ELSE Then(ReadOutpoint(Drop(bs, HashSize)), LAMBDA cp :
         IF cp.err \/ Len(cp.rest) < PubKeyLen THEN DecErr
         ELSE Then(ParsePubKey(SubSeq(cp.rest, 1, PubKeyLen)), LAMBDA key :
              IF key.err \/ Len(cp.rest) < PubKeyLen + 16 THEN DecErr
              ELSE Then(DecodeOutput(Drop(cp.rest, PubKeyLen + 16)), LAMBDA self :
              IF self.err THEN DecErr
              ELSE Then(DecodeOutput(self.rest), LAMBDA revoked :
              IF revoked.err THEN DecErr
              ELSE Then(ReadVarInt(revoked.rest), LAMBDA n :
              IF n.err THEN DecErr
              ELSE Then(DecodeOutputs(n.rest, n.val), LAMBDA htlcs :
              IF htlcs.err THEN DecErr
              ELSE [err |-> FALSE,
                    val |-> [commitHash |-> SubSeq(bs, 1, HashSize),
                             chanPoint |-> cp.val,
                             remoteIdentity |-> key.val,
                             capacity |->
                                 Int64(SubSeq(cp.rest, PubKeyLen + 1, PubKeyLen + 8)),
                             settledBalance |->
                                 Int64(SubSeq(cp.rest, PubKeyLen + 9, PubKeyLen + 16)),
                             selfOutput |-> self.val,
                             revokedOutput |-> revoked.val,
                             htlcOutputs |-> htlcs.val,
                             doneChan |-> "nil"],
                    rest |-> htlcs.rest]))))))

\* The inputs: outpoints, amounts, sign descriptors, outputs, retributions.
OutPoints == {[hash |-> HashOf(3), index |-> 0], [hash |-> HashOf(11), index |-> 258]}
Amounts == {0 - 1, 4999, 70000}
SignDescs == {<<>>, <<2, 0, 255>>}
BreachedOutputs ==
    [amt : Amounts, outpoint : OutPoints, signDescriptor : SignDescs,
     witnessType : WitnessTypes, twoStageClaim : BOOLEAN,
     witnessFunc : {"nil", "set"}]

SelfOutputs ==
    {bo \in BreachedOutputs :
        /\ bo.witnessType = CommitmentNoDelay /\ bo.outpoint.index = 0
        /\ bo.amt = 4999 /\ bo.witnessFunc = "set" /\ ~bo.twoStageClaim}

RevokedOutputs ==
    {bo \in BreachedOutputs :
        /\ bo.witnessType = CommitmentRevoke /\ bo.outpoint.index = 258
        /\ bo.amt = 70000 /\ bo.witnessFunc = "nil" /\ ~bo.twoStageClaim}

HtlcOutputs ==
    {bo \in BreachedOutputs :
        /\ bo.witnessType = CommitmentTimeLock /\ bo.outpoint.index = 258
        /\ bo.signDescriptor = <<>> /\ bo.witnessFunc = "nil"
        /\ bo.amt = 0 - 1}

RECURSIVE SeqsUpTo(_, _)
SeqsUpTo(S, n) ==
    IF n = 0 THEN {<<>>}
    ELSE SeqsUpTo(S, n - 1)
         \cup {Append(q, x) : q \in {p \in SeqsUpTo(S, n - 1) : Len(p) = n - 1},
                              x \in S}

Retributions ==
    [commitHash : {HashOf(13)}, chanPoint : OutPoints,
     remoteIdentity : [x : CurveXs, odd : BOOLEAN],
     capacity : {100000}, settledBalance : {0, 4999},
     selfOutput : SelfOutputs, revokedOutput : RevokedOutputs,
     htlcOutputs : SeqsUpTo(HtlcOutputs, MaxHtlcs),
     doneChan : {"nil", "chan"}]

\* Values a bucket can hold that Encode of a persisted record does not
\* produce: a witness type outside the known ones, a public key that is
\* not on the curve, a value cut short.
UnknownTypes == {3, 65535}
SampleRet == CHOOSE r \in Retributions : Len(r.htlcOutputs) = 1
StoredValues ==
    {Encode([SampleRet EXCEPT !.selfOutput.witnessType = t]) : t \in UnknownTypes}
    \cup {Encode([SampleRet EXCEPT !.htlcOutputs[1].witnessType = t]) :
              t \in UnknownTypes}
    \cup {Encode([SampleRet EXCEPT !.remoteIdentity.x = HashOf(9)])}
    \cup {SubSeq(Encode(SampleRet), 1, n) : n \in {0, 40, 120, 200}}
    \cup {Encode(SampleRet)}

\* A node whose arbiter is not started, and one input: a retribution or a
\* breachedOutput to serialize, or a stored value to deserialize.
CodecInit ==
    /\ Boot
    /\ probe \in {[op |-> "ret", in |-> ret] : ret \in Retributions}
                 \cup {[op |-> "output", in |-> bo] : bo \in BreachedOutputs}
                 \cup {[op |-> "stored", bytes |-> bs] : bs \in StoredValues}

CodecFrame == UNCHANGED <<pvars, svars, tvars, crashes, errs, newCount, hist, calls>>

\* Encode the retribution into a buffer and Decode the buffer.
DoEncodeDecode ==
    /\ probe.op = "ret"
    /\ \E bytes \in {Encode(probe.in)} : \E d \in {Decode(bytes)} :
          probe' = [op |-> "EncodeDecode", in |-> probe.in,
                    bytes |-> bytes, err |-> d.err,
                    out |-> IF d.err THEN NoRec ELSE d.val, rest |-> d.rest]
    /\ CodecFrame

\* Encode the breachedOutput and Decode the buffer.
DoEncodeDecodeOutput ==
    /\ probe.op = "output"
    /\ \E bytes \in {EncodeOutput(probe.in)} : \E d \in {DecodeOutput(bytes)} :
          probe' = [op |-> "EncodeDecodeOutput", in |-> probe.in,
                    bytes |-> bytes, err |-> d.err,
                    out |-> IF d.err THEN NoRec ELSE d.val, rest |-> d.rest]
    /\ CodecFrame

\* The body of ForAll's loop on the stored value: Decode it, return the
\* error if there is one, else hand the record to the callback.
DoDecodeStored ==
    /\ probe.op = "stored"
    /\ \E d \in {Decode(probe.bytes)} :
          probe' = [op |-> "Decode", in |-> NoRec, bytes |-> probe.bytes,
                    err |-> d.err,
                    out |-> IF d.err THEN NoRec ELSE d.val, rest |-> d.rest]
    /\ CodecFrame

CodecNext == DoEncodeDecode \/ DoEncodeDecodeOutput \/ DoDecodeStored

CodecSpec == CodecInit /\ [][CodecNext]_vars

\* ---------------------------------------------------------------------
\* The justice transaction.

\* The hard-coded fee of the justice transaction.
JusticeFee == 5000

\* The result of a builder that returns (nil, err).
BuildErr == [err |-> TRUE]

\* The generator witnessType.GenWitnessFunc(signer, signDescriptor) called
\* as witnessFunc(tx, hashCache, inputIndex): it sets the input index of
\* the descriptor and has the signer build the witness of the type; an
\* error for a type it does not know or when the signer fails.
GenWitnessFunc(bo, inputIndex, signErr) ==
    IF bo.witnessType \notin WitnessTypes \/ signErr THEN BuildErr
    ELSE [err |-> FALSE,
          val |-> [witnessType |-> bo.witnessType,
                   signDescriptor |-> bo.signDescriptor,
                   inputIndex |-> inputIndex]]

\* createJusticeTx with the inputs in the opposite order.
createJusticeTx_SwapsInputs(r, w) ==
    IF w.scriptErr THEN BuildErr
    ELSE LET totalAmt == r.selfOutput.amt + r.revokedOutput.amt
             sweepedAmt == totalAmt - JusticeFee
             localWitness == GenWitnessFunc(r.selfOutput, 0, w.selfErr)
             remoteWitness == GenWitnessFunc(r.revokedOutput, 1, w.revokedErr)
         IN IF localWitness.err \/ remoteWitness.err THEN BuildErr
            ELSE [err |-> FALSE,
                  tx |-> [version |-> 2,
                          txOut |-> <<[pkScript |-> w.pkScript,
                                       value |-> sweepedAmt]>>,
                          txIn |-> <<[previousOutPoint |-> r.revokedOutput.outpoint,
                                      witness |-> localWitness.val],
                                     [previousOutPoint |-> r.selfOutput.outpoint,
                                      witness |-> remoteWitness.val]>>]]

\* createJusticeTx(r), w holding what the wallet answers: the sweep script
\* (or an error) and whether the signer fails for either output. The
\* transaction has version 2; its output is added first, then the input
\* of selfOutput, then the input of revokedOutput; the witnesses are those
\* of the two generators called with the indexes 0 and 1. The HTLC outputs
\* get a generator and no input.
createJusticeTx(r, w) ==
    IF w.scriptErr THEN BuildErr
    ELSE LET totalAmt == r.selfOutput.amt + r.revokedOutput.amt
             sweepedAmt == totalAmt - JusticeFee
             justiceTx ==
                 [version |-> 2,
                  txOut |-> <<[pkScript |-> w.pkScript, value |-> sweepedAmt]>>,
                  txIn |-> <<[previousOutPoint |-> r.selfOutput.outpoint,
                              witness |-> <<>>],
                             [previousOutPoint |-> r.revokedOutput.outpoint,
                              witness |-> <<>>]>>]
             localWitness == GenWitnessFunc(r.selfOutput, 0, w.selfErr)
             remoteWitness == GenWitnessFunc(r.revokedOutput, 1, w.revokedErr)
         IN IF localWitness.err THEN BuildErr
            ELSE IF remoteWitness.err THEN BuildErr
            ELSE [err |-> FALSE,
                  tx |-> [justiceTx EXCEPT
                              !.txIn[1].witness = localWitness.val,
                              !.txIn[2].witness = remoteWitness.val]]

\* The retributions handed to the builder: every pair of amounts, zero to
\* MaxHtlcs HTLC outputs.
JusticeRets ==
    {[r EXCEPT !.selfOutput.amt = a, !.revokedOutput.amt = b] :
        r \in {q \in Retributions :
                  /\ q.doneChan = "chan" /\ q.settledBalance = 0
                  /\ q.remoteIdentity.odd /\ q.remoteIdentity.x = HashOf(5)
                  /\ q.chanPoint.index = 0},
        a \in Amounts, b \in Amounts}

\* What the wallet answers to newSweepPkScript and to the signer.
WalletAnswers ==
    [pkScript : {<<0, 20, 7>>}, scriptErr : BOOLEAN, selfErr : BOOLEAN,
     revokedErr : BOOLEAN]

\* A node whose arbiter is not started, and one retribution to build the
\* justice transaction of.
JusticeInit ==
    /\ Boot
    /\ probe \in [op : {"retribution"}, in : JusticeRets, wallet : WalletAnswers]

\* createJusticeTx(r).
DoCreateJusticeTx ==
    /\ probe.op = "retribution"
    /\ LET res == createJusticeTx(probe.in, probe.wallet)
       IN probe' = [op |-> "createJusticeTx", in |-> probe.in,
                    wallet |-> probe.wallet, err |-> res.err,
                    tx |-> IF res.err THEN NoRec ELSE res.tx]
    /\ CodecFrame

JusticeNext == DoCreateJusticeTx

JusticeSpec == JusticeInit /\ [][JusticeNext]_vars

\* ---------------------------------------------------------------------
\* The sweep of a unilateral close.

\* The close summaries of a unilateral close: without a self output (a nil
\* SelfOutPoint is the empty sequence), or with one of a value around the
\* fee; and what the wallet answers.
CloseInfos ==
    [op : {"closeInfo"},
     selfOutPoint : {<<>>, <<[hash |-> HashOf(3), index |-> 0]>>},
     value : {0, 4999, 5000, 5001, 70000},
     pkScript : {<<0, 20, 7>>},
     scriptErr : BOOLEAN, signErr : BOOLEAN, publishErr : BOOLEAN]

\* A node with one open channel, whose counterparty will close it with the
\* close summary drawn.
SweepInit == Boot /\ probe \in CloseInfos

\* The counterparty broadcasts its latest commitment; the observer and the
\* callback of waitForChanToClose handle it.
UniClose ==
    \/ CoordInit
    \/ \E o \in ObsIds : ObsUnilateral(o) \/ CoordSettledFwd(o)
    \/ \E cp \in ChanPoints :
          SpendFunding(cp, "uni") \/ ConfirmSpend(cp) \/ FinalizerConf(cp)

SweepNext == Startup \/ UniClose

SweepSpec == SweepInit /\ [][SweepNext]_vars

\* Everything together.
NextAll == Next \/ Renew

SpecAll == Init /\ [][NextAll]_vars

\* ------------------------------------------------------------------ claims

\* The store holds a record for cp and the channel database still lists cp
\* as an open channel.
StoredAndOpen(cp) == HasRec(cp) /\ chanDB[cp].st = "open"

\* The Start of the running process has not reconciled cp: it has not run
\* its reconciliation loop past cp, or it has returned an error.
NotReconciled(cp) ==
    \/ startPc \in {"idle", "load", "failed"}
    \/ startPc \in {"reconcile", "delete"} /\ cp \in todo

\* A breach observer of the running process has added the record of cp and
\* has not deleted the channel state: DeleteState is still to be called, or
\* it returned an error.
InAddDeleteWindow(cp) ==
    \E o \in 1..Len(obs) :
        obs[o].cp = cp /\ obs[o].added = "ok" /\ obs[o].deleted # "ok"

C2_PublishOnlyWithRecord ==
    [][\A cp \in ChanPoints : mempool'[cp] # mempool[cp] => HasRec(cp)]_vars

\* C3: a record leaves the store only in a step of an executor of its
\* channel point that has received the confirmation of the justice
\* transaction it published; no other step removes a record.
C3_RemoveOnlyAfterJusticeConf ==
    [][\A cp \in ChanPoints :
          (HasRec(cp) /\ ~(bucket' /\ store'[cp] # NoRec)) =>
              \E e \in 1..Len(execs) :
                  /\ execs[e].cp = cp
                  /\ execs[e].pc = "remove"
                  /\ execs[e].txid \in mempool[cp]
                  /\ justiceConf[cp] = execs[e].txid
                  /\ (Len(execs') >= e => execs'[e].pc = "done")]_vars

\* C3, witness: an executor has served justice and its record is gone from
\* the bucket.
C3_Witness ==
    \E e \in 1..Len(execs) :
        execs[e].exit = "served" /\ bucket /\ ~HasRec(execs[e].cp)

\* C4: a breached channel is marked fully closed exactly when its record is
\* not in the store: never fully closed with the record still stored, and
\* never served with the record removed and the channel not fully closed.
C4_RemoveAndCloseAtomic ==
    \A cp \in ChanPoints :
        /\ chain[cp].kind = "breach" => ~(chanDB[cp].st = "closed" /\ HasRec(cp))
        /\ (\E e \in 1..Len(execs) : execs[e].cp = cp /\ execs[e].exit = "served")
               /\ ~HasRec(cp) => chanDB[cp].st = "closed"

\* The records Start found in the store whose channels FetchAllChannels
\* still listed as active.
StoredActiveAtStart == {cp \in ChanPoints : loaded[cp] # NoRec /\ cp \in active}

\* C5: when Start has returned nil, every channel that was stored and still
\* active has had CloseLink(Breach) before its state was deleted, is closed
\* under the BreachClose summary rebuilt from its record, has an executor
\* spawned from the record, and is not among the channels to watch.
C5_RestartPromotion ==
    startPc = "done" =>
        \A cp \in StoredActiveAtStart :
            /\ linkClosed[cp]
            /\ hist[cp].order = "closeLinkFirst"
            /\ chanDB[cp].st \in {"pending", "closed"}
            /\ chanDB[cp].closeType = "Breach"
            /\ chanDB[cp].closingTxid = loaded[cp].commitHash
            /\ \E e \in 1..Len(execs) : execs[e].cp = cp /\ execs[e].fromStore
            /\ cp \notin watchList
            /\ \A o \in 1..Len(obs) : obs[o].cp # cp

\* C5, witness: Start has returned nil after promoting a stored, active
\* channel.
C5_Witness == startPc = "done" /\ StoredActiveAtStart # {}

\* The executors Start has spawned for the record of cp.
StartExecs(cp) == {e \in 1..Len(execs) : execs[e].cp = cp /\ execs[e].fromStore}

\* C6: when Start has returned nil, every record it found in the store has
\* exactly one executor, waiting on the record's commitHash; and every
\* record in the store has an executor or was added by a live observer.
C6_ExecutorPerStoredRecord ==
    startPc = "done" =>
        \A cp \in ChanPoints :
            /\ loaded[cp] # NoRec =>
                  /\ Cardinality(StartExecs(cp)) = 1
                  /\ \A e \in StartExecs(cp) :
                        execs[e].confTxid = loaded[cp].commitHash
            /\ HasRec(cp) =>
                  \/ StartExecs(cp) # {}
                  \/ \E o \in 1..Len(obs) : obs[o].cp = cp /\ obs[o].added = "ok"

\* C6, witness: Start has returned nil with a stored record whose channel
\* was no longer active, its executor waiting for the breach confirmation.
C6_Witness ==
    /\ startPc = "done"
    /\ \E cp \in ChanPoints :
          /\ loaded[cp] # NoRec
          /\ cp \notin active
          /\ \E e \in StartExecs(cp) : execs[e].pc = "waitBreach"

\* The steps of observer o, its hand-off to the coordinator included.
ObsStep(o) ==
    \/ ObsSettle(o)
    \/ ObsUnilateral(o)
    \/ ObsBreach(o)
    \/ ObsQuit(o)
    \/ ObsAdd(o)
    \/ ObsDeleteState(o)
    \/ ObsSendQuit(o)
    \/ CoordBreached(o)

\* The steps of executor e.
ExecStep(e) == ExecPublish(e) \/ ExecJusticeConf(e) \/ ExecRemove(e)

\* SpecNew with every observer goroutine scheduled fairly.
FairNew == SpecNew /\ \A o \in ObsIds : WF_vars(ObsStep(o))

\* A run with no shutdown and no collaborator error, every observer and
\* every executor goroutine scheduled fairly.
NextLive == Startup \/ Tasks \/ Env

LiveSpec ==
    /\ Init
    /\ [][NextLive]_vars
    /\ \A o \in ObsIds : WF_vars(ObsStep(o))
    /\ \A e \in ExecIds : WF_vars(ExecStep(e))

\* The observers spawned for cp, and those of them that have not returned.
ObsOf(cp) == {o \in 1..Len(obs) : obs[o].cp = cp}

Running(cp) == {o \in ObsOf(cp) : obs[o].pc # "done"}

Latest(cp) == CHOOSE o \in ObsOf(cp) : \A p \in ObsOf(cp) : p <= o

\* C7: when the coordinator takes a newContracts event for a channel point
\* that has a map entry, the settle signal of the entry's observer is closed
\* and the entry becomes the fresh observer, whose signal is open; and once
\* a channel point has had two observers, eventually none but the latest is
\* running.
C7_SecondContractReplacesFirst ==
    /\ [][\A cp \in ChanPoints :
             (cp \in pendingNew /\ cp \notin pendingNew' /\ breachObservers[cp] # 0) =>
                 /\ Len(obs') = Len(obs) + 1
                 /\ obs'[breachObservers[cp]].sig = "closed"
                 /\ breachObservers'[cp] = Len(obs')
                 /\ obs'[Len(obs')] = NewObs(cp)]_vars
    /\ \A cp \in ChanPoints :
          (Cardinality(ObsOf(cp)) >= 2) ~>
              (ObsOf(cp) # {} /\ \A o \in Running(cp) : o = Latest(cp))

\* C7, witness: the first observer of a channel point has taken its closed
\* settle signal and returned, and the map entry is the second observer,
\* still selecting.
C7_Witness ==
    \E cp \in ChanPoints :
        /\ Cardinality(ObsOf(cp)) = 2
        /\ \E o \in ObsOf(cp) :
              o # Latest(cp) /\ obs[o].sig = "closed" /\ obs[o].outcome = "settle"
        /\ breachObservers[cp] = Latest(cp)
        /\ Running(cp) = {Latest(cp)}

\* The branches of the observer's select that act on the channel.
Terminal == {"settle", "uni", "breach"}

\* C8: an observer executes one branch only: after the settle or the
\* unilateral-close branch it has returned without Add and DeleteState, the
\* forwarder of settledContracts belongs to the unilateral-close branch
\* only, Add belongs to the breach branch only; a channel point has at most
\* one observer that took a terminal branch, and it has a record in the
\* store only if that branch was the breach branch, never after a settle
\* or a unilateral close.
C8_OneTerminalAction ==
    /\ \A o \in 1..Len(obs) :
          /\ obs[o].outcome \in {"settle", "uni", "quit"} =>
                /\ obs[o].pc = "done"
                /\ obs[o].added = "-"
                /\ obs[o].deleted = "-"
                /\ ~HasRec(obs[o].cp)
          /\ obs[o].outcome = "-" => obs[o].pc = "select"
          /\ o \in fwd => obs[o].outcome = "uni"
          /\ obs[o].outcome = "breach" => o \notin fwd
          /\ obs[o].added # "-" => obs[o].outcome = "breach"
    /\ \A cp \in ChanPoints :
          /\ Cardinality({o \in ObsOf(cp) : obs[o].outcome \in Terminal}) <= 1
          /\ (crashes = 0 /\ HasRec(cp)) =>
                \E o \in ObsOf(cp) : obs[o].outcome = "breach" /\ obs[o].added = "ok"

\* C8, witness: the settle signal of an observer was closed while it was in
\* its breach branch; it has written the record and handed the retribution
\* to the coordinator.
C8_Witness ==
    \E o \in 1..Len(obs) :
        /\ obs[o].outcome = "breach"
        /\ obs[o].sig = "closed"
        /\ obs[o].pc = "done"
        /\ HasRec(obs[o].cp)
        /\ \E e \in 1..Len(execs) : execs[e].cp = obs[o].cp

\* C9: once a breach is reported to an observer, eventually the record is
\* in the store and the coordinator has spawned the executor; once the
\* executor's breach transaction is confirmed, eventually a justice
\* transaction is published; once the justice transaction is confirmed,
\* eventually the channel is fully closed and the record is gone.
C9_ColdBreachLiveness ==
    /\ \A o \in ObsIds :
          (o <= Len(obs) /\ obs[o].pc = "add") ~>
              (/\ o <= Len(obs)
               /\ HasRec(obs[o].cp)
               /\ \E e \in 1..Len(execs) :
                     execs[e].cp = obs[o].cp /\ ~execs[e].fromStore)
    /\ \A cp \in ChanPoints :
          /\ (\E e \in 1..Len(execs) :
                 execs[e].cp = cp /\ Confirmed(cp, execs[e].confTxid))
                ~> (mempool[cp] # {})
          /\ (justiceConf[cp] # 0)
                ~> (mempool[cp] # {} /\ chanDB[cp].st = "closed" /\ ~HasRec(cp))

\* C9, witness: justice has been served for a breach that an observer of
\* this process reported.
C9_Witness ==
    \E e \in 1..Len(execs) :
        /\ ~execs[e].fromStore
        /\ execs[e].exit = "served"
        /\ chanDB[execs[e].cp].st = "closed"
        /\ bucket
        /\ ~HasRec(execs[e].cp)

\* C10: while the notifier is shut down, a step of an executor that is
\* blocked on a confirmation ends the executor and leaves the mempool, the
\* channel database and the store as they are.
C10_NotifierShutdownExit ==
    [][\A e \in ExecIds :
          (/\ ExecAt(e, {"waitBreach", "waitJustice"})
           /\ notifierDown
           /\ Len(execs') >= e
           /\ execs'[e] # execs[e]) =>
              /\ execs'[e].pc = "done"
              /\ pvars' = pvars]_vars

\* C10, witness: an executor has left its wait for the justice confirmation
\* on a closed Confirmed channel; its record is still in the store and the
\* channel is not fully closed.
C10_Witness ==
    \E e \in 1..Len(execs) :
        /\ execs[e].exit = "closed2"
        /\ HasRec(execs[e].cp)
        /\ chanDB[execs[e].cp].st # "closed"

\* ------------------------------------------------------------ shutdown

\* A crash of a process on which Stop has not been called.
CrashRunning == ~quit /\ Crash

\* The steps of the coordinator, of a settledContracts forwarder, of
\* executor e with its exits, and of a pending-close watcher.
CoordStep ==
    \/ CoordInit \/ CoordQuit
    \/ \E o \in ObsIds : CoordBreached(o) \/ CoordSettledFwd(o)
    \/ \E cp \in ChanPoints : CoordSettledExt(cp)

FwdStep(o) == CoordSettledFwd(o) \/ FwdQuit(o)

ExecRun(e) == ExecStep(e) \/ ExecPublishSpent(e) \/ ExecQuit(e) \/ ExecConfClosed(e)

WatcherStep(cp) == WatcherConf(cp) \/ WatcherExit(cp)

\* The arbiter with restarts and shutdown, every collaborator call
\* succeeding, every goroutine scheduled fairly.
NextStop ==
    \/ Startup \/ Recovery \/ Tasks \/ Respend \/ Env
    \/ Shutdown \/ RecoveryShutdown \/ CrashRunning

StopSpec ==
    /\ Init
    /\ [][NextStop]_vars
    /\ WF_vars(CoordStep)
    /\ \A o \in ObsIds : WF_vars(ObsStep(o)) /\ WF_vars(FwdStep(o))
    /\ \A e \in ExecIds : WF_vars(ExecRun(e))
    /\ \A cp \in ChanPoints : WF_vars(WatcherStep(cp))

\* The goroutines the wait group tracks that have not returned.
TrackedObs == {o \in 1..Len(obs) : obs[o].pc # "done"}

TrackedExecs == {e \in 1..Len(execs) : execs[e].pc # "done"}

TrackedWatchers == {cp \in ChanPoints : watchers[cp].pc = "wait"}

CoordRunning == coordPc \in {"init", "loop"}

\* b.wg.Wait() of Stop has returned: Stop was called in this process and
\* no tracked goroutine is left.
StopReturned ==
    /\ stopped = 1
    /\ ~CoordRunning
    /\ TrackedObs = {} /\ TrackedExecs = {} /\ fwd = {} /\ TrackedWatchers = {}

\* C11: once Stop has been called, eventually every goroutine tracked by
\* the wait group has returned and Stop returns.
C11_StopReturns == (stopped = 1) ~> StopReturned

\* C12: a call of Start or Stop that finds its flag set changes nothing of
\* the store, the channel database, the chain, the flags, the quit channel
\* and the goroutines, also while the first Start is running; the startup
\* protocol begins only in a step that finds started = 0 and sets it, and
\* quit is closed only in a step that finds stopped = 0 and sets it.
C12_StartStopOnce ==
    [][/\ calls' # calls /\ started' = 1 =>
            /\ started = 1
            /\ calls'.stop # calls.stop => stopped = 1
            /\ pvars' = pvars /\ svars' = svars /\ tvars' = tvars
       /\ (startPc' = "load" /\ startPc # "load") => (started = 0 /\ started' = 1)
       /\ (quit' /\ ~quit) => (stopped = 0 /\ stopped' = 1)]_vars

\* C12, witness: Start has returned, Stop has closed quit, and a second
\* call of each has found its flag set.
C12_Witness ==
    /\ calls.start = 1 /\ calls.stop = 1
    /\ started = 1 /\ stopped = 1 /\ quit
    /\ startPc = "done"

\* The positions of the records of cp among those ForAll handed to the
\* callback.
VisitsOf(cp) == {i \in 1..Len(probe.visited) : probe.visited[i].chanPoint = cp}

\* C13: after any sequence of Add and Remove, a ForAll whose callback
\* returns no error visits, for every channel point that was added and not
\* removed since, exactly one record, and it is the record of the last Add;
\* no ForAll visits two records of one channel point.
C13_StoreUpsert ==
    probe.op = "ForAll" =>
        \A cp \in ChanPoints :
            /\ Cardinality(VisitsOf(cp)) <= 1
            /\ (~probe.err /\ probe.last[cp] # NoRec) =>
                  /\ Cardinality(VisitsOf(cp)) = 1
                  /\ \A i \in VisitsOf(cp) : probe.visited[i] = probe.last[cp]

\* C13, witness: a record was added over a different record of the same
\* channel point, and ForAll has visited the second one.
C13_Witness ==
    /\ probe.op = "ForAll"
    /\ \E cp \in ChanPoints :
          /\ probe.prev[cp] # NoRec
          /\ probe.prev[cp] # probe.last[cp]
          /\ \E i \in VisitsOf(cp) : probe.visited[i] = probe.last[cp]

\* C14: after a Remove, a ForAll visits no record of the removed channel
\* point; and Remove returns an error exactly when the bucket does not
\* exist or holds no record under the key.
C14_RemoveErrsOnMissing ==
    /\ probe.op = "ForAll" =>
          \A cp \in ChanPoints : probe.last[cp] = NoRec => VisitsOf(cp) = {}
    /\ probe.op = "Remove" =>
          (probe.err <=> (~probe.hadBucket \/ ~probe.hadRec))

\* The records that were added and not removed since.
Kept == {probe.last[cp] : cp \in {c \in ChanPoints : probe.last[c] # NoRec}}

\* C15: a ForAll whose callback returns no error hands every stored record
\* to the callback exactly once and returns no error; one whose callback
\* returns an error on a record returns an error and has visited that
\* record last, no record twice; on a store whose bucket does not exist
\* ForAll visits nothing and returns no error; the store holds what was
\* added and not removed, before and after ForAll.
C15_ForAllComplete ==
    /\ \A cp \in ChanPoints :
          IF probe.last[cp] = NoRec THEN ~HasRec(cp)
          ELSE HasRec(cp) /\ store[cp] = probe.last[cp]
    /\ probe.op = "ForAll" =>
          /\ \A i \in 1..Len(probe.visited) : probe.visited[i] \in Kept
          /\ \A i, j \in 1..Len(probe.visited) :
                probe.visited[i] = probe.visited[j] => i = j
          /\ probe.err <=> (probe.arg # "-" /\ probe.last[probe.arg] # NoRec)
          /\ ~probe.err => Len(probe.visited) = Cardinality(Kept)
          /\ probe.err =>
                probe.visited[Len(probe.visited)].chanPoint = probe.arg
          /\ ~probe.hadBucket => (probe.visited = <<>> /\ ~probe.err)

\* C15, witness: with two records in the store, ForAll has stopped on the
\* error the callback returned for the first and has not visited the second.
C15_Witness ==
    /\ probe.op = "ForAll"
    /\ probe.err
    /\ Cardinality(Kept) = 2
    /\ Len(probe.visited) = 1


\* ---------------------------------------------------------------------
\* Serialization claims (CodecSpec).

\* r with its transient fields unset.
Persisted(ret) ==
    [ret EXCEPT !.doneChan = "nil",
                !.selfOutput.witnessFunc = "nil",
                !.revokedOutput.witnessFunc = "nil",
                !.htlcOutputs = [i \in 1..Len(ret.htlcOutputs) |->
                                    [ret.htlcOutputs[i] EXCEPT !.witnessFunc = "nil"]]]

\* C16: Decode(Encode(r)) succeeds, consumes the whole buffer and equals r
\* on every persisted field (commitHash, chanPoint, remoteIdentity,
\* capacity, settledBalance, selfOutput, revokedOutput, the htlcOutputs in
\* order, and amount, outpoint, signDescriptor, witnessType, twoStageClaim
\* of each output), with witnessFunc and doneChan unset; the same holds
\* for a single breachedOutput.
C16_EncodeDecodeRoundTrip ==
    /\ probe.op = "EncodeDecode" =>
          /\ ~probe.err
          /\ probe.rest = <<>>
          /\ probe.out = Persisted(probe.in)
    /\ probe.op = "EncodeDecodeOutput" =>
          /\ ~probe.err
          /\ probe.rest = <<>>
          /\ probe.out = [probe.in EXCEPT !.witnessFunc = "nil"]

\* A retribution with two HTLC outputs, a negative amount, a two-stage
\* output, a witnessFunc and a doneChan has gone through Encode and Decode.
C16_Witness ==
    /\ probe.op = "EncodeDecode"
    /\ Len(probe.in.htlcOutputs) = 2
    /\ probe.in.htlcOutputs[1].twoStageClaim
    /\ ~probe.in.htlcOutputs[2].twoStageClaim
    /\ probe.in.selfOutput.witnessFunc = "set"
    /\ probe.in.doneChan = "chan"
    /\ probe.in.remoteIdentity.odd
    /\ Len(probe.out.htlcOutputs) = 2
    /\ probe.out.doneChan = "nil"

\* C17: Decode returns an error for a stored value in which the witness
\* type of some output is not a known one, so such a record is never
\* handed to ForAll's callback.
C17_DecodeRejectsUnknownType ==
    (probe.op = "Decode" /\ ~probe.err) =>
        /\ probe.out.selfOutput.witnessType \in WitnessTypes
        /\ probe.out.revokedOutput.witnessType \in WitnessTypes
        /\ \A i \in 1..Len(probe.out.htlcOutputs) :
              probe.out.htlcOutputs[i].witnessType \in WitnessTypes

\* ---------------------------------------------------------------------
\* Builder claims.

C19_SweepRejectsDust ==
    probe.op = "swept" =>
        /\ chanDB[probe.cp].st = "closed"
        /\ (probe.crafted /\ probe.closeInfo.value <= 5000) =>
              /\ probe.err
              /\ probe.tx = NoRec
              /\ probe.published = <<>>
        /\ (probe.crafted /\ probe.closeInfo.value > 5000 /\ ~probe.err) =>
              /\ Len(probe.tx.txIn) = 1
              /\ probe.tx.txIn[1].previousOutPoint = probe.closeInfo.selfOutPoint[1]
              /\ Len(probe.tx.txOut) = 1
              /\ probe.tx.txOut[1].value = probe.closeInfo.value - 5000
              /\ probe.published = <<probe.tx>>

\* The callback has run for a close whose self output is worth exactly the
\* fee: nothing was published and the channel is fully closed.
C19_Witness ==
    /\ probe.op = "swept"
    /\ probe.crafted
    /\ probe.closeInfo.value = 5000
    /\ ~probe.closeInfo.scriptErr
    /\ probe.published = <<>>
    /\ chanDB[probe.cp].st = "closed"

\* ---------------------------------------------------------------------
\* The order of the breach branch.

\* The coordinator takes the retribution of observer o off
\* breachedContracts in this step.
Received(o) ==
    /\ obs[o].pc = "send"
    /\ obs'[o].pc = "done"
    /\ coordPc = "loop"
    /\ (Len(execs') = Len(execs) + 1 \/ errs' = errs + 1)

\* C20: in the breach branch of an observer CloseLink(chanPoint, Breach)
\* comes first, then retributionStore.Add, then DeleteState with the
\* BreachClose pending summary, then the send on breachedContracts; the
\* coordinator receives a retribution only after Add and DeleteState have
\* both been attempted for it.
C20_BreachBranchOrder ==
    [][\A o \in 1..Len(obs) : o \in 1..Len(obs') =>
          /\ (obs[o].added = "-" /\ obs'[o].added # "-") =>
                /\ linkClosed[obs[o].cp]
                /\ obs[o].outcome = "breach"
                /\ obs[o].deleted = "-"
                /\ obs'[o].deleted = "-"
                /\ obs'[o].pc # "send"
          /\ (obs[o].deleted = "-" /\ obs'[o].deleted # "-") =>
                /\ obs[o].added # "-"
                /\ obs[o].pc # "send"
                /\ chanDB'[obs[o].cp] # chanDB[obs[o].cp] =>
                      chanDB'[obs[o].cp] = Summary("Breach", BreachTxid(obs[o].cp), 0)
          /\ (obs[o].pc # "send" /\ obs'[o].pc = "send") =>
                /\ linkClosed'[obs[o].cp]
                /\ obs'[o].added # "-"
                /\ obs'[o].deleted # "-"
          /\ Received(o) =>
                /\ linkClosed[obs[o].cp]
                /\ obs[o].added # "-"
                /\ obs[o].deleted # "-"]_vars

\* The coordinator has spawned the executor of a retribution whose observer
\* closed the link, stored the record and deleted the channel state.
C20_Witness ==
    \E o \in 1..Len(obs) :
        /\ obs[o].outcome = "breach"
        /\ obs[o].pc = "done"
        /\ obs[o].added = "ok"
        /\ obs[o].deleted = "ok"
        /\ linkClosed[obs[o].cp]
        /\ HasRec(obs[o].cp)
        /\ chanDB[obs[o].cp].closeType = "Breach"
        /\ \E e \in 1..Len(execs) :
              execs[e].cp = obs[o].cp /\ ~execs[e].fromStore

\* ---------------------------------------------------------------------
\* Startup and coordinator claims.

\* C21: a channel with a record in the retribution store is marked fully
\* closed only after its justice transaction has been confirmed; the
\* pending-close watchers of Start never mark it fully closed on the
\* confirmation of the breach transaction alone.
C21_BreachedClosedOnlyAfterJustice ==
    [][\A cp \in ChanPoints :
          (chanDB[cp].st # "closed" /\ chanDB'[cp].st = "closed" /\ HasRec(cp))
              => justiceConf[cp] # 0]_vars

\* Start has reconciled every channel that was stored and still active:
\* its link is closed and its open-state record is gone.
Reconciled ==
    \A cp \in StoredActiveAtStart : linkClosed[cp] /\ chanDB[cp].st # "open"

\* C22: Start finishes the reconciliation (CloseLink, then DeleteState) of
\* every active channel whose channel point is in the store before it
\* spawns a retribution executor and before a breach observer runs; the
\* observers spawned at startup are for channel points without a record
\* in the store.
C22_ReconcileBeforeSpawn ==
    [][/\ (Len(execs') > Len(execs) /\ execs'[Len(execs')].fromStore) =>
              /\ Reconciled
              /\ startPc = "spawn"
       /\ \A cp \in StoredActiveAtStart :
              (chanDB[cp].st = "open" /\ chanDB'[cp].st # "open"
                  /\ startPc = "delete") => linkClosed[cp]
       /\ Len(obs') > Len(obs) =>
              /\ Reconciled
              /\ startPc \in {"pending", "done", "failed"}
              /\ \A o \in (Len(obs) + 1)..Len(obs') :
                    /\ loaded[obs'[o].cp] = NoRec
                    /\ ~HasRec(obs'[o].cp)
       /\ (obs' # obs /\ obs # <<>>) =>
              startPc \in {"pending", "done", "failed"}]_vars

\* A restarted process has reconciled a stored channel that was still
\* open, spawned its executor from the record and started its coordinator.
C22_Witness ==
    /\ StoredActiveAtStart # {}
    /\ Reconciled
    /\ \E e \in 1..Len(execs) :
          execs[e].fromStore /\ execs[e].cp \in StoredActiveAtStart
    /\ coordPc = "loop"
    /\ crashes > 0

\* The coordinator loop takes a value off breachedContracts,
\* settledContracts or newContracts in this step.
CoordReceives ==
    /\ coordPc = "loop"
    /\ coordPc' = "loop"
    /\ \/ \E o \in 1..Len(obs) : o \in 1..Len(obs') /\ Received(o)
       \/ ~quit /\ fwd' # fwd /\ fwd' \subseteq fwd
       \/ extSettle' # extSettle /\ extSettle' \subseteq extSettle
       \/ pendingNew' # pendingNew /\ pendingNew' \subseteq pendingNew

\* C23: the coordinator loop receives from newContracts, settledContracts
\* or breachedContracts only when Start has finished all of its startup
\* steps, the enumeration of the pending closes and the registration of
\* their watchers included.
C23_StartupBeforeSignals ==
    [][CoordReceives => startPc = "done"]_vars

\* C24: every retribution the coordinator receives on breachedContracts
\* gets exactly one retribution executor, and the map entry of its channel
\* point is removed from breachObservers, whatever GetBestBlock and
\* RegisterConfirmationsNtfn return.
C24_ReceivedBreachSpawnsExecutor ==
    [][\A o \in 1..Len(obs) : (o \in 1..Len(obs') /\ Received(o)) =>
          /\ Len(execs') = Len(execs) + 1
          /\ execs'[Len(execs')].cp = obs[o].cp
          /\ ~execs'[Len(execs')].fromStore
          /\ breachObservers'[obs[o].cp] = 0]_vars

\* ---------------------------------------------------------------------
\* Executor claims.

\* Executor e returns in this step because building or publishing the
\* justice transaction, reading the chain tip or registering for the
\* justice confirmation failed.
ExecFails(e) ==
    /\ execs[e].pc = "waitBreach"
    /\ execs'[e].pc = "done"
    /\ execs'[e].exit \in {"buildErr", "publishErr", "registerErr"}

\* C25: an executor that fails to build or publish the justice
\* transaction, to read the chain tip or to register for the justice
\* confirmation exits without retrying, without MarkChanFullyClosed and
\* without retributionStore.Remove; the record is still in the store, and
\* a Start that then returns nil has spawned an executor for it.
C25_FailureKeepsCheckpoint ==
    [][/\ \A e \in 1..Len(execs) : (e \in 1..Len(execs') /\ ExecFails(e)) =>
              /\ bucket' = bucket /\ store' = store
              /\ chanDB' = chanDB
              /\ HasRec(execs[e].cp)
       /\ \A e \in 1..Len(execs) :
              (e \in 1..Len(execs') /\ execs[e].pc = "done"
                  /\ execs[e].exit \in {"buildErr", "publishErr", "registerErr"})
                  => execs'[e] = execs[e]
       /\ (startPc # "done" /\ startPc' = "done") =>
              \A cp \in ChanPoints : loaded[cp] # NoRec =>
                  \E e \in 1..Len(execs') :
                      execs'[e].cp = cp /\ execs'[e].fromStore]_vars

\* ------------------------------------------------------------------- C26

\* Start at the moment ForAll has returned an error: the call is past the
\* compare-and-swap and has done nothing else.
NothingStarted ==
    /\ coordPc = "none"
    /\ obs = <<>> /\ execs = <<>> /\ fwd = {}
    /\ breachObservers = [cp \in ChanPoints |-> 0]
    /\ watchers = [cp \in ChanPoints |-> [pc |-> "none", txid |-> "-"]]
    /\ finalizers = [cp \in ChanPoints |-> "none"]
    /\ linkClosed = [cp \in ChanPoints |-> FALSE]
    /\ watchList = {} /\ cur = "-"

\* C26: when ForAll returns an error while Start loads the retributions,
\* Start returns that error having spawned no coordinator, observer, executor
\* or pending-close watcher, having sent no CloseLink and having deleted no
\* channel state; the store and the channel database are as they were.
C26_LoadFailureHasNoEffect ==
    [][(startPc = "load" /\ startPc' = "failed")
          => /\ NothingStarted /\ NothingStarted'
             /\ chanDB' = chanDB /\ store' = store /\ bucket' = bucket
             /\ loaded' = NoChans]_vars

\* Start has failed in ForAll with a retribution in the store and an open
\* channel in the channel database, and nothing runs.
C26_Witness ==
    /\ startPc = "failed"
    /\ NothingStarted
    /\ \E cp \in ChanPoints :
          HasRec(cp) /\ loaded[cp] = NoRec /\ chanDB[cp].st = "open"

\* ------------------------------------------------------------------- C27

\* C27: every executor that has received the justice confirmation completes
\* its final step and returns normally, whether its retribution came from a
\* live observer or from the store: removing the record and closing the done
\* signal leaves the executor returned ("served") in a process that lives on.
C27_FinalStepReturns ==
    [][\A e \in 1..Len(execs) :
          (/\ execs[e].pc = "remove"
           /\ crashes' = crashes
           /\ (e \notin 1..Len(execs') \/ execs'[e] # execs[e]))
             => /\ e \in 1..Len(execs')
                /\ execs'[e].pc = "done"
                /\ execs'[e].exit = "served"
                /\ started' = started]_vars

\* ------------------------------------------------------------------- C28

\* C28: a settledContracts event that comes from the unilateral-close branch
\* of observer o makes the coordinator close the settle signal of o only:
\* the signal and the map entry of every other observer, a replacement of o
\* for the same channel point included, stay as they are.
C28_SettleHitsOnlyItsObserver ==
    [][\A o \in fwd :
          (coordPc = "loop" /\ o \notin fwd')
             => \A p \in 1..Len(obs) :
                   (p # o /\ obs[p].sig = "open")
                      => /\ obs'[p].sig = "open"
                         /\ breachObservers[obs[p].cp] = p
                               => breachObservers'[obs[p].cp] = p]_vars

\* ------------------------------------------------------------------- C29

\* The executors of channel point cp that have not returned.
ActiveExecs(cp) == {e \in 1..Len(execs) : execs[e].cp = cp /\ execs[e].pc # "done"}

\* C29: within one process lifetime at most one retribution executor is
\* active for a channel point, whatever Start loads and whatever
\* newContracts events and breach reports arrive.
C29_OneExecutorPerChanPoint ==
    \A cp \in ChanPoints : Cardinality(ActiveExecs(cp)) <= 1

\* ------------------------------------------------------------------- C30

\* Observer o has not returned and its settle signal is not closed.
Watching(o) == obs[o].pc # "done" /\ obs[o].sig = "open"

\* C30: no orphaned observer: every running breach observer whose settle
\* signal is not closed has that very signal as the breachObservers entry of
\* its channel point; in particular the coordinator, when it receives a
\* breach report, removes no entry that belongs to another observer.
C30_NoOrphanedObserver ==
    /\ [](\A o \in 1..Len(obs) : Watching(o) => breachObservers[obs[o].cp] = o)
    /\ [][\A o \in 1..Len(obs) :
             (o \in 1..Len(obs') /\ Received(o))
                => \A p \in 1..Len(obs) :
                      (p # o /\ Watching(p) /\ breachObservers[obs[p].cp] = p)
                         => breachObservers'[obs[p].cp] = p]_vars

\* ------------------------------------------------------------------- C31

\* C31: no settle signal is closed more than once: every signal the
\* coordinator can look up in breachObservers is still open, so none of its
\* close calls meets a closed channel, and a closed signal stays closed and
\* is never closed again.
C31_SettleSignalClosedOnce ==
    /\ [](\A cp \in ChanPoints :
             breachObservers[cp] # 0
                => /\ breachObservers[cp] \in 1..Len(obs)
                   /\ obs[breachObservers[cp]].cp = cp
                   /\ ~ClosePanics(breachObservers[cp]))
    /\ [][\A o \in 1..Len(obs) :
             (o \in 1..Len(obs') /\ obs[o].sig = "open" /\ obs'[o].sig = "closed")
                => /\ breachObservers[obs[o].cp] = o
                   /\ breachObservers'[obs[o].cp] # o]_vars

\* The coordinator has closed two signals of one channel point, one on a
\* newContracts event and one on a settledContracts event.
C31_Witness ==
    \E o, p \in 1..Len(obs) :
       /\ o < p
       /\ obs[o].cp = obs[p].cp
       /\ obs[o].sig = "closed" /\ obs[p].sig = "closed"
       /\ breachObservers[obs[o].cp] = 0

========================================================================
